---- MODULE Spec2Model ----
(***************************************************************************)
(* Black-Scholes pricing kernel, Greeks and the implied-volatility solver  *)
(* of backend/app (models/black_scholes.py, models/greeks.py,              *)
(* services/volatility.py, utils/input_validation.py).                     *)
(*                                                                         *)
(* Python floats are modelled as fixed-point integers counting units of    *)
(* 1/ONE (1e-7).  A quotient or product outside the representable range    *)
(* saturates at +-MaxFx, the way a double runs into +-inf.  math.log,      *)
(* math.exp, math.sqrt, norm.pdf and norm.cdf are computed by series on    *)
(* that representation, never looked up.                                   *)
(***************************************************************************)
EXTENDS Integers, Sequences, FiniteSets, TLC

(* ---------------------------------------------------------------------- *)
(* Fixed-point arithmetic                                                  *)
(* ---------------------------------------------------------------------- *)

\* one unit of the real line: 1.0 == ONE fixed-point units
ONE == 10000000

\* the largest magnitude a value can take (a double's inf)
MaxFx == 2147483647

\* limb base of the split multiplication, and ONE \div Limb
Limb == 10000

LimbRest == 1000

Abs(x) == IF x < 0 THEN -x ELSE x

Sgn(x) == IF x < 0 THEN -1 ELSE 1

Min2(a, b) == IF a < b THEN a ELSE b

Max2(a, b) == IF a > b THEN a ELSE b

\* the middle limbs of the product: x / 1000 + y / 1000 + z, carries kept
MulMid(x, y, z) ==
    (x \div LimbRest) + (y \div LimbRest)
    + (((x % LimbRest) + (y % LimbRest) + z) \div LimbRest)

\* the high limbs a1 * b1 * 10 joined to the middle ones, saturating at MaxFx
MulJoin(a1, b1, mid) ==
    IF a1 = 0 \/ b1 = 0 THEN mid
    ELSE IF a1 * 10 > (MaxFx - mid) \div b1 THEN MaxFx
    ELSE a1 * b1 * 10 + mid

MulLimbs(a1, a0, b1, b0) ==
    MulJoin(a1, b1, MulMid(a1 * b0, a0 * b1, (a0 * b0) \div Limb))

\* |a| * |b| / ONE, rounded down, saturating at MaxFx
MulMag(a, b) == MulLimbs(a \div Limb, a % Limb, b \div Limb, b % Limb)

\* float multiplication a * b
MulFx(a, b) == Sgn(a) * Sgn(b) * MulMag(Abs(a), Abs(b))

RECURSIVE DivDigits(_, _, _, _)
\* n more decimal digits of the quotient r / b, appended to q (r < b)
DivDigits(r, b, n, q) ==
    IF n = 0 THEN q
    ELSE DivDigits((r * 10) % b, b, n - 1, q * 10 + ((r * 10) \div b))

\* the largest divisor whose remainders can be multiplied by ten
DivLimit == 214748364

\* the integer part, then seven decimal digits; out of range above 214
DivScaled(a, b) ==
    IF a \div b >= 214 THEN MaxFx ELSE DivDigits(a % b, b, 7, a \div b)

\* |a| / |b| * ONE, rounded down, saturating at MaxFx (b > 0)
DivMag(a, b) ==
    IF b > DivLimit THEN DivScaled(a \div 10, b \div 10) ELSE DivScaled(a, b)

\* float division a / b for b # 0 (the callers raise ZeroDivisionError first)
DivFx(a, b) == Sgn(a) * Sgn(b) * DivMag(Abs(a), Abs(b))

\* float addition, saturating
AddFx(a, b) ==
    IF a > 0 /\ b > 0 /\ a > MaxFx - b THEN MaxFx
    ELSE IF a < 0 /\ b < 0 /\ a < (-MaxFx) - b THEN -MaxFx
    ELSE a + b

SubFx(a, b) == AddFx(a, -b)

RECURSIVE SqrtIter(_, _)
\* Newton's iteration from above: y decreases to floor(sqrt(x))
SqrtStep(x, y, y2) == IF y2 >= y THEN y ELSE SqrtIter(x, y2)

SqrtIter(x, y) == SqrtStep(x, y, (y + DivFx(x, y)) \div 2)

\* math.sqrt(x) for x >= 0
SqrtFx(x) == IF x = 0 THEN 0 ELSE SqrtIter(x, Max2(x, ONE))

\* ln 2, sqrt(2) and 1/sqrt(2) in fixed point
Ln2 == 6931472

Sqrt2 == 14142136

InvSqrt2 == 7071068

RECURSIVE LnReduce(_, _)
\* <<m, k>> with x = m * 2^k and m in [1/sqrt 2, sqrt 2)
LnReduce(m, k) ==
    IF m >= Sqrt2 THEN LnReduce(m \div 2, k + 1)
    ELSE IF m < InvSqrt2 THEN LnReduce(m * 2, k - 1)
    ELSE <<m, k>>

\* 2 * atanh(y) by its series in y2 = y * y, cut after y^11
LnSeries(y, y2) ==
    2 * MulFx(y, ONE + MulFx(y2, (ONE \div 3) + MulFx(y2, (ONE \div 5)
                     + MulFx(y2, (ONE \div 7) + MulFx(y2, (ONE \div 9)
                     + MulFx(y2, ONE \div 11))))))

LnOfY(y) == LnSeries(y, MulFx(y, y))

\* ln m = 2 * atanh((m - 1) / (m + 1))
LnMant(m) == LnOfY(DivFx(m - ONE, m + ONE))

LnParts(mk) == mk[2] * Ln2 + LnMant(mk[1])

\* math.log(x) for x > 0 (the callers raise ValueError first)
LnFx(x) == LnParts(LnReduce(x, 0))

RECURSIVE ExpSeries(_, _)
\* Horner form of sum_{j >= n-1} (-f)^j * (n-1)! / j!, cut after 12 terms
ExpSeries(f, n) ==
    IF n > 12 THEN ONE
    ELSE ONE - MulFx(f \div n, ExpSeries(f, n + 1))

RECURSIVE Halve(_, _)
Halve(x, k) == IF k = 0 \/ x = 0 THEN x ELSE Halve(x \div 2, k - 1)

\* exp(-u) for u >= 0
ExpNeg(u) == Halve(ExpSeries(u % Ln2, 1), u \div Ln2)

\* 1 / e, inf when e underflowed to 0
ExpInv(e) == IF e = 0 THEN MaxFx ELSE DivFx(ONE, e)

\* math.exp(x)
ExpFx(x) == IF x <= 0 THEN ExpNeg(-x) ELSE ExpInv(ExpNeg(x))

\* 1/sqrt(2 pi)
InvSqrt2Pi == 3989423

\* norm.pdf(x)
PdfFx(x) == MulFx(InvSqrt2Pi, ExpFx(-(MulFx(x, x) \div 2)))

\* the polynomial of 26.2.17 in t = 1 / (1 + 0.2316419 x)
TailPoly(t) ==
    MulFx(t, 3193815 + MulFx(t, (-3565638) + MulFx(t, 17814779
             + MulFx(t, (-18212560) + MulFx(t, 13302744)))))

\* the upper tail 1 - Phi(x) for x >= 0 (Abramowitz-Stegun 26.2.17)
TailFx(x) ==
    Max2(0, Min2(ONE \div 2,
                 MulFx(PdfFx(x), TailPoly(DivFx(ONE, ONE + MulFx(2316419, x))))))

\* norm.cdf(x)
CdfFx(x) == IF x >= 0 THEN ONE - TailFx(x) ELSE TailFx(-x)

(* ---------------------------------------------------------------------- *)
(* Values: what a call hands back                                          *)
(* ---------------------------------------------------------------------- *)

\* a float result; ev names the helpers and library functions the call ran
Val(x, ev) == [tag |-> "float", v |-> x, msg |-> "", ev |-> ev]

\* an exception leaving the call: its class in tag, its message in msg
Exc(e, msg, ev) == [tag |-> e, v |-> 0, msg |-> msg, ev |-> ev]

\* Python's None
None == [tag |-> "None", v |-> 0, msg |-> "", ev |-> {}]

IsFloat(x) == x.tag = "float"

IsExc(x) == x.tag \notin {"float", "None", "dict", "tuple"}

\* the same outcome with more helpers recorded
With(x, ev) == [x EXCEPT !.ev = @ \cup ev]

\* the messages of the exceptions the kernel can raise
MsgOptionType == "option_type must be 'call' or 'put'"

MsgDomain == "math domain error"

MsgZeroDiv == "float division by zero"

(* ---------------------------------------------------------------------- *)
(* Option side strings                                                     *)
(* ---------------------------------------------------------------------- *)

\* str.lower() on one character
LowerChar(c) ==
    CASE c = "C" -> "c" [] c = "A" -> "a" [] c = "L" -> "l"
      [] c = "P" -> "p" [] c = "U" -> "u" [] c = "T" -> "t"
      [] OTHER -> c

\* str.lower(): every character lowered, the length kept
Lower(s) == [i \in 1..Len(s) |-> LowerChar(s[i])]

StrCall == <<"c", "a", "l", "l">>

StrPut == <<"p", "u", "t">>

(* ---------------------------------------------------------------------- *)
(* BlackScholesModel (models/black_scholes.py)                             *)
(* ---------------------------------------------------------------------- *)

\* sigma * math.sqrt(T)
SigSqrtT(T, sigma) == MulFx(sigma, SqrtFx(T))

\* the quotient under IEEE division, where x / 0.0 is an infinity
D1QuotIEEE(q, sst, T, r, sigma) ==
    IF q <= 0 THEN Exc("ValueError", MsgDomain, {"_d1", "math.log"})
    ELSE IF sst = 0
      THEN Val(MaxFx, {"_d1", "math.log", "math.sqrt", "div"})
    ELSE Val(DivFx(AddFx(LnFx(q),
                         MulFx(AddFx(r, MulFx(sigma, sigma) \div 2), T)),
                   sst),
             {"_d1", "math.log", "math.sqrt", "div"})

\* (math.log(q) + (r + 0.5 * sigma ** 2) * T) / sst with q = S / K
D1Quot(q, sst, T, r, sigma) ==
    IF q <= 0 THEN Exc("ValueError", MsgDomain, {"_d1", "math.log"})
    ELSE IF sst = 0
      THEN Exc("ZeroDivisionError", MsgZeroDiv,
               {"_d1", "math.log", "math.sqrt", "div"})
    ELSE Val(DivFx(AddFx(LnFx(q),
                         MulFx(AddFx(r, MulFx(sigma, sigma) \div 2), T)),
                   sst),
             {"_d1", "math.log", "math.sqrt", "div"})

\* BlackScholesModel._d1 / Greeks._d1
D1(S, K, T, r, sigma) ==
    IF T <= 0 THEN Val(0, {"_d1"})
    ELSE IF K = 0 THEN Exc("ZeroDivisionError", MsgZeroDiv, {"_d1"})
    ELSE D1Quot(DivFx(S, K), SigSqrtT(T, sigma), T, r, sigma)

\* self._d1() - sigma * math.sqrt(T)
D2From(d1, sst) ==
    IF IsFloat(d1) THEN Val(SubFx(d1.v, sst), d1.ev \cup {"_d2"})
    ELSE With(d1, {"_d2"})

\* BlackScholesModel._d2 / Greeks._d2
D2(S, K, T, r, sigma) ==
    IF T <= 0 THEN Val(0, {"_d2"})
    ELSE D2From(D1(S, K, T, r, sigma), SigSqrtT(T, sigma))

\* K * math.exp(-r * T)
DiscK(K, T, r) == MulFx(K, ExpFx(-MulFx(r, T)))

\* S * norm.cdf(d1) - K * exp(-r T) * norm.cdf(d2), dk the discounted strike
CallFrom(d1, d2, S, dk) ==
    IF ~IsFloat(d1) THEN d1
    ELSE Val(SubFx(MulFx(S, CdfFx(d1.v)), MulFx(dk, CdfFx(d2.v))),
             d1.ev \cup d2.ev \cup {"norm.cdf", "math.exp"})

\* call_price taking the intrinsic branch only for T < 0
CallPriceStrictExpiry(S, K, T, r, sigma) ==
    IF T < 0 THEN Val(Max2(0, S - K), {})
    ELSE CallFrom(D1(S, K, T, r, sigma), D2(S, K, T, r, sigma), S,
                  DiscK(K, T, r))

\* call_price with the strike left undiscounted
CallPriceUndiscounted(S, K, T, r, sigma) ==
    IF T <= 0 THEN Val(Max2(0, S - K), {})
    ELSE CallFrom(D1(S, K, T, r, sigma), D2(S, K, T, r, sigma), S, K)

\* BlackScholesModel.call_price
CallPrice(S, K, T, r, sigma) ==
    IF T <= 0 THEN Val(Max2(0, S - K), {})
    ELSE CallFrom(D1(S, K, T, r, sigma), D2(S, K, T, r, sigma), S,
                  DiscK(K, T, r))

\* K * exp(-r T) * norm.cdf(-d2) - S * norm.cdf(-d1)
PutFrom(d1, d2, S, dk) ==
    IF ~IsFloat(d1) THEN d1
    ELSE Val(SubFx(MulFx(dk, CdfFx(-d2.v)), MulFx(S, CdfFx(-d1.v))),
             d1.ev \cup d2.ev \cup {"norm.cdf", "math.exp"})

\* put_price with the strike left undiscounted
PutPriceUndiscounted(S, K, T, r, sigma) ==
    IF T <= 0 THEN Val(Max2(0, K - S), {})
    ELSE PutFrom(D1(S, K, T, r, sigma), D2(S, K, T, r, sigma), S, K)

\* BlackScholesModel.put_price
PutPrice(S, K, T, r, sigma) ==
    IF T <= 0 THEN Val(Max2(0, K - S), {})
    ELSE PutFrom(D1(S, K, T, r, sigma), D2(S, K, T, r, sigma), S,
                 DiscK(K, T, r))

\* the dispatch of price on the lowered side
PriceOf(side, S, K, T, r, sigma) ==
    IF side = StrCall THEN CallPrice(S, K, T, r, sigma)
    ELSE IF side = StrPut THEN PutPrice(S, K, T, r, sigma)
    ELSE Exc("ValueError", MsgOptionType, {})

\* price comparing the side as passed, without lower()
PriceCaseSensitive(S, K, T, r, sigma, ot) == PriceOf(ot, S, K, T, r, sigma)

\* BlackScholesModel.price
Price(S, K, T, r, sigma, ot) == PriceOf(Lower(ot), S, K, T, r, sigma)

\* the tuple of get_d1_d2
D1D2From(d1, d2) ==
    IF ~IsFloat(d1) THEN d1
    ELSE [tag |-> "tuple", v |-> <<d1.v, d2.v>>, msg |-> "",
          ev |-> d1.ev \cup d2.ev]

\* BlackScholesModel.get_d1_d2
GetD1D2(S, K, T, r, sigma) ==
    D1D2From(D1(S, K, T, r, sigma), D2(S, K, T, r, sigma))

(* ---------------------------------------------------------------------- *)
(* Greeks (models/greeks.py); side is self.option_type                     *)
(* ---------------------------------------------------------------------- *)

\* Greeks.__init__: self.option_type = option_type.lower()
GreeksType(ot) == Lower(ot)

\* a Greeks._d1 without the T <= 0 rule: math.sqrt raises on a negative T and
\* the division on T = 0
GreeksD1NoSentinel(S, K, T, r, sigma) ==
    IF K = 0 THEN Exc("ZeroDivisionError", MsgZeroDiv, {"_d1"})
    ELSE IF T < 0 THEN Exc("ValueError", MsgDomain, {"_d1", "math.sqrt"})
    ELSE D1Quot(DivFx(S, K), SigSqrtT(T, sigma), T, r, sigma)

\* Greeks._d1: 0.0 on T <= 0, the quotient of line 40 otherwise
GreeksD1(S, K, T, r, sigma) ==
    IF T <= 0 THEN Val(0, {"_d1"})
    ELSE IF K = 0 THEN Exc("ZeroDivisionError", MsgZeroDiv, {"_d1"})
    ELSE D1Quot(DivFx(S, K), SigSqrtT(T, sigma), T, r, sigma)

\* Greeks._d2: 0.0 on T <= 0, self._d1() - self.sigma * math.sqrt(self.T)
GreeksD2(S, K, T, r, sigma) ==
    IF T <= 0 THEN Val(0, {"_d2"})
    ELSE D2From(GreeksD1(S, K, T, r, sigma), SigSqrtT(T, sigma))

\* norm.cdf(d1) whatever the side
DeltaFromUnshifted(d1, side) ==
    IF ~IsFloat(d1) THEN d1
    ELSE Val(CdfFx(d1.v), d1.ev \cup {"norm.cdf"})

\* norm.cdf(d1) for a call, norm.cdf(d1) - 1 otherwise
DeltaFrom(d1, side) ==
    IF ~IsFloat(d1) THEN d1
    ELSE IF side = StrCall
      THEN Val(CdfFx(d1.v), d1.ev \cup {"norm.cdf"})
      ELSE Val(CdfFx(d1.v) - ONE, d1.ev \cup {"norm.cdf"})

\* delta counting an expired at-the-money option as in the money
DeltaAtMoney(S, K, T, r, sigma, side) ==
    IF T <= 0
      THEN IF side = StrCall
             THEN Val(IF S >= K THEN ONE ELSE 0, {})
             ELSE Val(IF S <= K THEN -ONE ELSE 0, {})
      ELSE DeltaFrom(GreeksD1(S, K, T, r, sigma), side)

\* Greeks.delta
Delta(S, K, T, r, sigma, side) ==
    IF T <= 0
      THEN IF side = StrCall
             THEN Val(IF S > K THEN ONE ELSE 0, {})
             ELSE Val(IF S < K THEN -ONE ELSE 0, {})
      ELSE DeltaFrom(GreeksD1(S, K, T, r, sigma), side)

\* norm.pdf(d1) / den with den = S * sigma * sqrt(T)
GammaFrom(d1, den) ==
    IF ~IsFloat(d1) THEN d1
    ELSE IF den = 0
      THEN Exc("ZeroDivisionError", MsgZeroDiv, d1.ev \cup {"norm.pdf"})
      ELSE Val(DivFx(PdfFx(d1.v), den), d1.ev \cup {"norm.pdf"})

\* gamma with the sign of the side, the way delta and rho carry it
GammaSigned(S, K, T, r, sigma, side) ==
    IF T <= 0 THEN Val(0, {})
    ELSE IF side = StrCall
      THEN GammaFrom(GreeksD1(S, K, T, r, sigma), MulFx(MulFx(S, sigma), SqrtFx(T)))
      ELSE GammaFrom(GreeksD1(S, K, T, r, sigma), -MulFx(MulFx(S, sigma), SqrtFx(T)))

\* Greeks.gamma
Gamma(S, K, T, r, sigma, side) ==
    IF T <= 0 THEN Val(0, {})
    ELSE GammaFrom(GreeksD1(S, K, T, r, sigma), MulFx(MulFx(S, sigma), SqrtFx(T)))

\* -(S * norm.pdf(d1) * sigma) / (2 * sqrt(T))
ThetaTerm1(d1, S, T, sigma) ==
    -DivFx(MulFx(MulFx(S, PdfFx(d1.v)), sigma), 2 * SqrtFx(T))

\* (term1 -+ r * K * exp(-r T) * norm.cdf(+-d2)) / 365, rk = r * K * exp(-r T)
ThetaFrom(d1, d2, side, S, T, sigma, rk) ==
    IF ~IsFloat(d1) THEN d1
    ELSE IF side = StrCall
      THEN Val(SubFx(ThetaTerm1(d1, S, T, sigma), MulFx(rk, CdfFx(d2.v)))
                 \div 365,
               d1.ev \cup d2.ev \cup {"norm.pdf", "norm.cdf", "math.exp"})
      ELSE Val(AddFx(ThetaTerm1(d1, S, T, sigma), MulFx(rk, CdfFx(-d2.v)))
                 \div 365,
               d1.ev \cup d2.ev \cup {"norm.pdf", "norm.cdf", "math.exp"})

\* Greeks.theta (per calendar day)
Theta(S, K, T, r, sigma, side) ==
    IF T <= 0 THEN Val(0, {})
    ELSE ThetaFrom(GreeksD1(S, K, T, r, sigma), GreeksD2(S, K, T, r, sigma),
                   side, S, T, sigma,
                   MulFx(MulFx(r, K), ExpFx(-MulFx(r, T))))

\* S * norm.pdf(d1) * sqrt(T), per unit of volatility
VegaFromUnit(d1, S, T) ==
    IF ~IsFloat(d1) THEN d1
    ELSE Val(MulFx(MulFx(S, PdfFx(d1.v)), SqrtFx(T)), d1.ev \cup {"norm.pdf"})

\* S * norm.pdf(d1) * sqrt(T) / 100
VegaFrom(d1, S, T) ==
    IF ~IsFloat(d1) THEN d1
    ELSE Val(MulFx(MulFx(S, PdfFx(d1.v)), SqrtFx(T)) \div 100,
             d1.ev \cup {"norm.pdf"})

\* Greeks.vega (per percentage point of volatility)
Vega(S, K, T, r, sigma, side) ==
    IF T <= 0 THEN Val(0, {})
    ELSE VegaFrom(GreeksD1(S, K, T, r, sigma), S, T)

\* +-K * T * exp(-r T) * norm.cdf(+-d2) / 100, kt = K * T * exp(-r T)
RhoFrom(d2, side, kt) ==
    IF ~IsFloat(d2) THEN d2
    ELSE IF side = StrCall
      THEN Val(MulFx(kt, CdfFx(d2.v)) \div 100,
               d2.ev \cup {"norm.cdf", "math.exp"})
      ELSE Val((-MulFx(kt, CdfFx(-d2.v))) \div 100,
               d2.ev \cup {"norm.cdf", "math.exp"})

\* Greeks.rho (per percentage point of rate)
Rho(S, K, T, r, sigma, side) ==
    IF T <= 0 THEN Val(0, {})
    ELSE RhoFrom(GreeksD2(S, K, T, r, sigma), side,
                 MulFx(MulFx(K, T), ExpFx(-MulFx(r, T))))

\* the dict of all_greeks, or the first exception one of the five raised
GreeksDict(d, g, th, v, rh) ==
    IF ~IsFloat(d) THEN d
    ELSE IF ~IsFloat(g) THEN With(g, d.ev)
    ELSE IF ~IsFloat(th) THEN With(th, d.ev \cup g.ev)
    ELSE IF ~IsFloat(v) THEN With(v, d.ev \cup g.ev \cup th.ev)
    ELSE IF ~IsFloat(rh) THEN With(rh, d.ev \cup g.ev \cup th.ev \cup v.ev)
    ELSE [tag |-> "dict",
          v   |-> [delta |-> d.v, gamma |-> g.v, theta |-> th.v,
                   vega |-> v.v, rho |-> rh.v],
          msg |-> "",
          ev  |-> d.ev \cup g.ev \cup th.ev \cup v.ev \cup rh.ev]

\* Greeks.all_greeks: the five accessors in the order of the dict literal
AllGreeks(S, K, T, r, sigma, side) ==
    GreeksDict(Delta(S, K, T, r, sigma, side), Gamma(S, K, T, r, sigma, side),
               Theta(S, K, T, r, sigma, side), Vega(S, K, T, r, sigma, side),
               Rho(S, K, T, r, sigma, side))

(* ---------------------------------------------------------------------- *)
(* VolatilityService.calculate_implied_volatility (services/volatility.py) *)
(* ---------------------------------------------------------------------- *)

\* the bracket handed to brentq: sigma in [0.001, 5.0]
SigmaLo == 10000

SigmaHi == 50000000

\* defaults of initial_guess, max_iterations and tolerance
DefaultGuess == 3000000

DefaultMaxIter == 100

DefaultTol == 10

\* vega < 1e-10: below one unit of the representation
VegaMin == 1

\* a floor of |S - K| whatever the side
IntrinsicValueAbs(a) == Abs(a.S - a.K)

\* the intrinsic floor the precondition compares the market price with
IntrinsicValue(a) ==
    IF a.option_type = StrCall THEN Max2(0, a.S - a.K) ELSE Max2(0, a.K - a.S)

\* the early exits without the comparison with the intrinsic floor
PreconditionNoFloor(a) == a.T <= 0 \/ a.market_price <= 0

\* the early exits: T <= 0, market_price <= 0, market_price below the floor
PreconditionFails(a) ==
    \/ a.T <= 0
    \/ a.market_price <= 0
    \/ a.market_price < IntrinsicValue(a)

\* model_price - market_price, float('inf') when pricing raised
ObjectiveOf(p, mp) == IF IsFloat(p) THEN SubFx(p.v, mp) ELSE MaxFx

\* objective(sigma)
Objective(a, sigma) ==
    ObjectiveOf(Price(a.S, a.K, a.T, a.r, sigma, a.option_type),
                a.market_price)

IsSat(x) == Abs(x) >= MaxFx

SameSign(x, y) == (x < 0) = (y < 0)

\* brentq's locals before its loop
BrentLocals(fa, fb) ==
    [xpre |-> SigmaLo, xcur |-> SigmaHi, xblk |-> 0,
     fpre |-> fa, fcur |-> fb, fblk |-> 0, spre |-> 0, scur |-> 0]

\* the loop's first statement: a sign change between xpre and xcur re-brackets
BrentRebracket(b) ==
    IF b.fpre # 0 /\ b.fcur # 0 /\ ~SameSign(b.fpre, b.fcur)
      THEN [b EXCEPT !.xblk = b.xpre, !.fblk = b.fpre,
                     !.spre = b.xcur - b.xpre, !.scur = b.xcur - b.xpre]
      ELSE b

\* the loop's second statement: keep the end with the smaller |f| in xcur
BrentSwap(b) ==
    IF Abs(b.fblk) < Abs(b.fcur)
      THEN [b EXCEPT !.xpre = b.xcur, !.xcur = b.xblk, !.xblk = b.xcur,
                     !.fpre = b.fcur, !.fcur = b.fblk, !.fblk = b.fcur]
      ELSE b

BrentBracket(b) == BrentSwap(BrentRebracket(b))

\* delta = (xtol + rtol * |xcur|) / 2; rtol = 4 eps is below the resolution
BrentDelta(xtol) == xtol \div 2

\* sbis = (xblk - xcur) / 2
BrentSbis(b) == (b.xblk - b.xcur) \div 2

\* a convergence test that also accepts a price within one cent
BrentConvergedOnPrice(b, xtol) ==
    Abs(b.fcur) < ONE \div 100 \/ Abs(BrentSbis(b)) < BrentDelta(xtol)

\* the convergence test that ends the loop with xcur
BrentConverged(b, xtol) ==
    b.fcur = 0 \/ Abs(BrentSbis(b)) < BrentDelta(xtol)

\* the secant step -fcur * (xcur - xpre) / (fcur - fpre); "nan" as MaxFx
BrentInterpolate(b) ==
    IF b.fcur = b.fpre THEN MaxFx
    ELSE -MulFx(DivFx(b.fcur, SubFx(b.fcur, b.fpre)), b.xcur - b.xpre)

\* -q * (t1 - t2), "nan" (MaxFx) when a factor is out of range
ExtrapolateJoin(q, t1, t2) ==
    IF IsSat(t1) \/ IsSat(t2) \/ IsSat(q) THEN MaxFx ELSE -MulFx(q, t1 - t2)

\* the inverse quadratic step
\*   -fcur * (fblk * dblk - fpre * dpre) / (dblk * dpre * (fblk - fpre))
\* with dpre = (fpre - fcur) / (xpre - xcur), dblk = (fblk - fcur) / (xblk - xcur),
\* evaluated as -fcur / (fblk - fpre) * (fblk / dpre - fpre / dblk);
\* a zero divisor gives "nan" (MaxFx)
BrentExtrapolate(b) ==
    IF \/ b.fpre = b.fcur \/ b.fblk = b.fcur \/ b.fblk = b.fpre
       \/ b.xpre = b.xcur \/ b.xblk = b.xcur
      THEN MaxFx
      ELSE ExtrapolateJoin(
             DivFx(b.fcur, SubFx(b.fblk, b.fpre)),
             MulFx(DivFx(b.fblk, SubFx(b.fpre, b.fcur)), b.xpre - b.xcur),
             MulFx(DivFx(b.fpre, SubFx(b.fblk, b.fcur)), b.xblk - b.xcur))

\* the step brentq tries: secant with two points, inverse quadratic with three
BrentTry(b) ==
    IF b.xpre = b.xblk THEN BrentInterpolate(b) ELSE BrentExtrapolate(b)

\* <<spre, scur>> after the iteration: the tried step if it is short enough,
\* 2 |stry| < min(|spre|, 3 |sbis| - delta), the bisection otherwise
StepChoose(b, delta, sbis, stry) ==
    IF Abs(b.spre) > delta /\ Abs(b.fcur) < Abs(b.fpre)
      THEN IF ~IsSat(stry)
              /\ Abs(stry) <= (Min2(Abs(b.spre), 3 * Abs(sbis) - delta) - 1) \div 2
             THEN <<b.scur, stry>>
             ELSE <<sbis, sbis>>
      ELSE <<sbis, sbis>>

BrentStepChoice(b, xtol) ==
    StepChoose(b, BrentDelta(xtol), BrentSbis(b), BrentTry(b))

\* the point brentq evaluates next: xcur + scur, or xcur +- delta
BrentNextX(b, delta, scur) ==
    IF Abs(scur) > delta THEN b.xcur + scur
    ELSE b.xcur + (IF BrentSbis(b) > 0 THEN delta ELSE -delta)

\* the end of the loop body: xpre takes xcur, xcur moves to x, f is evaluated
BrentMove(a, b, sc, x) ==
    [b EXCEPT !.spre = sc[1], !.scur = sc[2],
              !.xpre = b.xcur, !.fpre = b.fcur,
              !.xcur = x, !.fcur = Objective(a, x)]

BrentStep(a, b, xtol, sc) ==
    BrentMove(a, b, sc, BrentNextX(b, BrentDelta(xtol), sc[2]))

\* one pass of the loop body after the convergence test failed
BrentAdvance(a, b, xtol) == BrentStep(a, b, xtol, BrentStepChoice(b, xtol))

\* a clamp that keeps the lower bound only
ClampBelowOnly(sigma) == Max2(SigmaLo, sigma)

\* sigma = max(0.001, min(sigma, 5.0))
Clamp(sigma) == Max2(SigmaLo, Min2(sigma, SigmaHi))

\* vega * 100, or the exception vega raised
TimesHundred(v) == IF IsFloat(v) THEN Val(v.v * 100, v.ev) ELSE v

\* vega_decimal of Greeks.vega: S * norm.pdf(d1) * sqrt(T), before its / 100
VegaDecimal(a, sigma) ==
    IF a.T <= 0 THEN Val(0, {})
    ELSE IF ~IsFloat(GreeksD1(a.S, a.K, a.T, a.r, sigma))
      THEN GreeksD1(a.S, a.K, a.T, a.r, sigma)
    ELSE Val(MulFx(MulFx(a.S, PdfFx(GreeksD1(a.S, a.K, a.T, a.r, sigma).v)),
                   SqrtFx(a.T)), {})

\* a fallback that divides by greeks.vega() as it is, per percentage point
UnitVegaPerPoint(a, sigma) ==
    Vega(a.S, a.K, a.T, a.r, sigma, GreeksType(a.option_type))

\* greeks.vega() * 100 in the fallback
UnitVega(a, sigma) ==
    TimesHundred(Vega(a.S, a.K, a.T, a.r, sigma, GreeksType(a.option_type)))

\* an except clause that lets the exception through
Uncaught(x) == x

\* the bare "except:" clauses: whatever was raised, the result is None
Caught(x) == IF IsExc(x) THEN None ELSE x

(* ---------------------------------------------------------------------- *)
(* check_arbitrage_bounds (utils/input_validation.py)                      *)
(* ---------------------------------------------------------------------- *)

\* the tolerance below the lower bound: 0.01
ArbTol == 100000

\* is_valid for a price between lo - 0.01 and hi
WithinBounds(price, lo, hi) == ~(price < lo - ArbTol) /\ ~(price > hi)

\* is_valid of check_arbitrage_bounds(option_price, S, K, option_type, T, r)
CheckArbitrageBounds(price, S, K, ot, T, r) ==
    IF Lower(ot) = StrCall
      THEN WithinBounds(price, Max2(0, S - DiscK(K, T, r)), S)
      ELSE WithinBounds(price, Max2(0, DiscK(K, T, r) - S), DiscK(K, T, r))

(* ---------------------------------------------------------------------- *)
(* Inputs                                                                  *)
(* ---------------------------------------------------------------------- *)

\* number of spot prices tried, from -50 in steps of 50
NSpot == 4

\* number of positive strikes tried, from 100 in steps of 10
NStrike == 2

SVals == {(i - 1) * 50 * ONE : i \in 0..NSpot}

KVals == {0} \cup {(90 + 10 * j) * ONE : j \in 1..NStrike}

\* expired (T < 0), expiring (T = 0), a quarter and a year
TVals == {-(ONE \div 4), 0, ONE \div 4, ONE}

RVals == {0, ONE \div 20}

\* sigma = 0, the ends of the documented range [0.01, 3.0] and 20 %
SigmaVals == {0, ONE \div 100, ONE \div 5, 3 * ONE}

\* spellings of the side: the two literals, other letter cases, not a side
TypeVals == {StrCall, StrPut, <<"C", "A", "L", "L">>, <<"P", "u", "t">>,
             <<"c", "a", "l">>}

(* ---------------------------------------------------------------------- *)
(* State                                                                   *)
(* ---------------------------------------------------------------------- *)

VARIABLES
    args,   \* the request's arguments as the caller passed them
    bs,     \* the BlackScholesModel instance's fields
    gk,     \* the Greeks instance's fields
    pc,     \* where the call stands: "ready", ..., "returned"
    ret,    \* the last call: [op, val, path]
    loc,    \* the solver's locals: loop index, sigma, brentq's variables
    cnt,    \* how often the solver has evaluated price and vega so far
    gen,    \* the sigma the market price was generated from (0: not generated)
    hist,   \* the calls that returned before this one: [op, args, val, path]
    resp,   \* the route's response: status and the four fields of the body
    other   \* the frame of a second call in progress, suspended

vars == <<args, bs, gk, pc, ret, loc, cnt, gen, hist, resp, other>>

NoRet == [op |-> "none", val |-> None, path |-> "none"]

NoLoc == [i |-> 0, sigma |-> 0, b |-> BrentLocals(0, 0), raised |-> "none"]

NoCnt == [price |-> 0, vega |-> 0, brent |-> 0, newton |-> 0]

\* no response has been built
NoResp ==
    [status |-> 0, implied_volatility |-> None, market_price |-> None,
     model_price |-> None, difference |-> None]

\* no second call is in progress
NoFrame ==
    [args |-> 0, bs |-> 0, gk |-> 0, pc |-> "none", ret |-> NoRet,
     loc |-> NoLoc, cnt |-> NoCnt]

\* BlackScholesModel.__init__
NewModel(S, K, T, r, sigma) ==
    [S |-> S, K |-> K, T |-> T, r |-> r, sigma |-> sigma]

\* Greeks.__init__
NewGreeks(S, K, T, r, sigma, ot) ==
    [S |-> S, K |-> K, T |-> T, r |-> r, sigma |-> sigma,
     option_type |-> GreeksType(ot)]

\* a request: the kernel's parameters and the solver's, in one record
Request(mp, S, K, T, r, sigma, ot, guess, maxit, tol) ==
    [market_price |-> mp, S |-> S, K |-> K, T |-> T, r |-> r,
     sigma |-> sigma, option_type |-> ot, initial_guess |-> guess,
     max_iterations |-> maxit, tolerance |-> tol]

\* a pricing request leaves the solver's parameters at their defaults
PricingArgs(S, K, T, r, sigma, ot) ==
    Request(0, S, K, T, r, sigma, ot, DefaultGuess, DefaultMaxIter, DefaultTol)

\* a solver request carries no sigma
IvArgs(mp, S, K, T, r, ot, guess, maxit, tol) ==
    Request(mp, S, K, T, r, 0, ot, guess, maxit, tol)

\* both objects are built from the request (routes/options.py)
Built(a) ==
    /\ bs = NewModel(a.S, a.K, a.T, a.r, a.sigma)
    /\ gk = NewGreeks(a.S, a.K, a.T, a.r, a.sigma, a.option_type)

\* nothing has been called yet
Fresh ==
    /\ pc = "ready"
    /\ ret = NoRet
    /\ loc = NoLoc
    /\ cnt = NoCnt
    /\ hist = {}
    /\ resp = NoResp
    /\ other = NoFrame

(* ---------------------------------------------------------------------- *)
(* Pricing and Greeks requests                                             *)
(* ---------------------------------------------------------------------- *)

\* a pricing request arrives
Init ==
    /\ \E S \in SVals, K \in KVals, T \in TVals, r \in RVals,
          sigma \in SigmaVals, ot \in TypeVals :
          args = PricingArgs(S, K, T, r, sigma, ot)
    /\ Built(args)
    /\ Fresh
    /\ gen = 0

\* a method that also stores its result in self.sigma
ReturnStoring(op, val) ==
    /\ pc = "ready"
    /\ pc' = "returned"
    /\ ret' = [op |-> op, val |-> val, path |-> "direct"]
    /\ bs' = [bs EXCEPT !.sigma = IF IsFloat(val) THEN val.v ELSE @]
    /\ gk' = [gk EXCEPT !.sigma = IF IsFloat(val) THEN val.v ELSE @]
    /\ UNCHANGED <<args, loc, cnt, gen, hist, resp, other>>

\* a method that first clamps a negative T to 0 in both objects
ReturnClampingExpiry(op, val) ==
    /\ pc = "ready"
    /\ pc' = "returned"
    /\ ret' = [op |-> op, val |-> val, path |-> "direct"]
    /\ bs' = [bs EXCEPT !.T = Max2(0, @)]
    /\ gk' = [gk EXCEPT !.T = Max2(0, @)]
    /\ UNCHANGED <<args, loc, cnt, gen, hist, resp, other>>

\* a method returns (or raises) val; no method assigns to a field
Return(op, val) ==
    /\ pc = "ready"
    /\ pc' = "returned"
    /\ ret' = [op |-> op, val |-> val, path |-> "direct"]
    /\ UNCHANGED <<args, bs, gk, loc, cnt, gen, hist, resp, other>>

DoPrice ==
    Return("price", Price(bs.S, bs.K, bs.T, bs.r, bs.sigma, args.option_type))

DoCallPrice == Return("call_price", CallPrice(bs.S, bs.K, bs.T, bs.r, bs.sigma))

DoPutPrice == Return("put_price", PutPrice(bs.S, bs.K, bs.T, bs.r, bs.sigma))

DoGetD1D2 == Return("get_d1_d2", GetD1D2(bs.S, bs.K, bs.T, bs.r, bs.sigma))

DoDelta ==
    Return("delta", Delta(gk.S, gk.K, gk.T, gk.r, gk.sigma, gk.option_type))

DoGamma ==
    Return("gamma", Gamma(gk.S, gk.K, gk.T, gk.r, gk.sigma, gk.option_type))

DoTheta ==
    Return("theta", Theta(gk.S, gk.K, gk.T, gk.r, gk.sigma, gk.option_type))

DoVega ==
    Return("vega", Vega(gk.S, gk.K, gk.T, gk.r, gk.sigma, gk.option_type))

DoRho ==
    Return("rho", Rho(gk.S, gk.K, gk.T, gk.r, gk.sigma, gk.option_type))

DoAllGreeks ==
    Return("all_greeks",
           AllGreeks(gk.S, gk.K, gk.T, gk.r, gk.sigma, gk.option_type))

Next ==
    \/ DoPrice
    \/ DoCallPrice
    \/ DoPutPrice
    \/ DoGetD1D2
    \/ DoDelta
    \/ DoGamma
    \/ DoTheta
    \/ DoVega
    \/ DoRho
    \/ DoAllGreeks

Spec == Init /\ [][Next]_vars

(* ---------------------------------------------------------------------- *)
(* Implied-volatility requests                                             *)
(* ---------------------------------------------------------------------- *)

\* number of strikes above 80 tried against a spot of 100, in steps of 10
NIvStrike == 3

IvStrikes == {(80 + 10 * j) * ONE : j \in 0..NIvStrike}

\* the sigmas market prices are generated from: the ends of [0.01, 3.0], 20 %
GenSigmas == {ONE \div 100, ONE \div 5, 3 * ONE}

\* market prices given directly: 0, 0.01, 1.0, 50.3 and 99.0
DirectPrices == {0, ONE \div 100, ONE, 503 * (ONE \div 10), 99 * ONE}

\* a market price generated by the kernel from the sigma sg
Generated(p, K, T, ot, sg) ==
    /\ IsFloat(p)
    /\ args = IvArgs(p.v, 100 * ONE, K, T, ONE \div 20, ot,
                     DefaultGuess, DefaultMaxIter, DefaultTol)
    /\ gen = sg

\* the market: default tuning, every strike, side spelling and price
InitMarket ==
    \E K \in IvStrikes, T \in {0, ONE \div 4}, ot \in TypeVals :
       \/ \E mp \in DirectPrices :
            /\ args = IvArgs(mp, 100 * ONE, K, T, ONE \div 20, ot,
                             DefaultGuess, DefaultMaxIter, DefaultTol)
            /\ gen = 0
       \/ \E sg \in GenSigmas :
            Generated(Price(100 * ONE, K, T, ONE \div 20, sg, ot), K, T, ot, sg)

\* a call struck at 110 priced at 20 %, one struck at 50 quoted at 50.3,
\* above its intrinsic value and below every model price, and one struck at
\* 100 priced at 600 %, above the model price at the bracket's upper end
TuningCases ==
    {<<110 * ONE,
       Price(100 * ONE, 110 * ONE, ONE \div 4, ONE \div 20, ONE \div 5, StrCall).v>>,
     <<50 * ONE, 503 * (ONE \div 10)>>,
     <<100 * ONE,
       Price(100 * ONE, 100 * ONE, ONE \div 4, ONE \div 20, 6 * ONE, StrCall).v>>}

\* the tuning parameters: guesses off the bracket, tiny budgets, odd tolerances
InitTuning ==
    \E c \in TuningCases,
       guess \in {DefaultGuess, 0, -ONE, 6 * ONE},
       maxit \in {DefaultMaxIter, 0, 1, 3},
       tol \in {DefaultTol, 0, ONE} :
       /\ args = IvArgs(c[2], 100 * ONE, c[1], ONE \div 4, ONE \div 20, StrCall,
                        guess, maxit, tol)
       /\ gen = 0

\* inputs the kernel cannot price: a zero spot or strike
InitDegenerate ==
    \E S \in {0, 100 * ONE}, K \in {0, 110 * ONE}, ot \in {StrCall, StrPut} :
       /\ S = 0 \/ K = 0
       /\ args = IvArgs(ONE, S, K, ONE \div 4, ONE \div 20, ot,
                        DefaultGuess, DefaultMaxIter, DefaultTol)
       /\ gen = 0

InitIV ==
    /\ InitMarket \/ InitTuning \/ InitDegenerate
    /\ Built(args)
    /\ Fresh

\* the solver returns val
IvReturn(val, path) ==
    /\ pc' = "returned"
    /\ ret' = [op |-> "implied_volatility", val |-> val, path |-> path]

\* lines 82-88: the preconditions
IvPrecheck ==
    /\ pc = "ready"
    /\ IF PreconditionFails(args)
         THEN IvReturn(None, "precondition")
         ELSE pc' = "brentq" /\ UNCHANGED ret
    /\ UNCHANGED <<args, bs, gk, loc, cnt, gen, hist, resp, other>>

\* a fallback that resumes from the last point of the bracketed search
StartNewtonFromBrent(e) ==
    /\ pc' = "newton"
    /\ loc' = [loc EXCEPT !.raised = e, !.i = 0, !.sigma = loc.b.xcur]

\* the except clause of line 103 is entered: sigma = initial_guess
StartNewton(e) ==
    /\ pc' = "newton"
    /\ loc' = [loc EXCEPT !.raised = e, !.i = 0, !.sigma = args.initial_guess]

\* a brentq that answers a bracket without sign change with its better end
BrentqEndsNearest(fa, fb) ==
    IF fa = 0 THEN IvReturn(Val(SigmaLo, {}), "brentq") /\ UNCHANGED loc
    ELSE IF fb = 0 THEN IvReturn(Val(SigmaHi, {}), "brentq") /\ UNCHANGED loc
    ELSE IF SameSign(fa, fb)
      THEN /\ IvReturn(Val(IF Abs(fa) < Abs(fb) THEN SigmaLo ELSE SigmaHi, {}),
                       "brentq")
           /\ UNCHANGED loc
    ELSE /\ pc' = "brent_loop"
         /\ loc' = [loc EXCEPT !.i = 0, !.b = BrentLocals(fa, fb)]
         /\ UNCHANGED ret

\* brentq after f(a) = fa and f(b) = fb: a root at an end, the sign test
BrentqEnds(fa, fb) ==
    IF fa = 0 THEN IvReturn(Val(SigmaLo, {}), "brentq") /\ UNCHANGED loc
    ELSE IF fb = 0 THEN IvReturn(Val(SigmaHi, {}), "brentq") /\ UNCHANGED loc
    ELSE IF SameSign(fa, fb) THEN StartNewton("ValueError") /\ UNCHANGED ret
    ELSE /\ pc' = "brent_loop"
         /\ loc' = [loc EXCEPT !.i = 0, !.b = BrentLocals(fa, fb)]
         /\ UNCHANGED ret

\* brentq is called: its argument checks, f at both ends, the sign test
BrentqCall ==
    /\ pc = "brentq"
    /\ IF args.tolerance <= 0 \/ args.max_iterations < 1
         THEN /\ StartNewton("ValueError")
              /\ UNCHANGED <<ret, cnt>>
         ELSE /\ cnt' = [cnt EXCEPT !.price = @ + 2]
              /\ BrentqEnds(Objective(args, SigmaLo), Objective(args, SigmaHi))
    /\ UNCHANGED <<args, bs, gk, gen, hist, resp, other>>

\* the loop body on the re-bracketed locals b
BrentPass(b) ==
    IF BrentConverged(b, args.tolerance)
      THEN /\ IvReturn(Val(b.xcur, {}), "brentq")
           /\ cnt' = [cnt EXCEPT !.brent = @ + 1]
           /\ UNCHANGED loc
      ELSE /\ loc' = [loc EXCEPT !.i = @ + 1,
                                 !.b = BrentAdvance(args, b, args.tolerance)]
           /\ cnt' = [cnt EXCEPT !.brent = @ + 1, !.price = @ + 1]
           /\ UNCHANGED <<pc, ret>>

\* one iteration of brentq's loop, or its end without convergence
BrentIter ==
    /\ pc = "brent_loop"
    /\ IF loc.i >= args.max_iterations
         THEN StartNewton("RuntimeError") /\ UNCHANGED <<ret, cnt>>
         ELSE BrentPass(BrentBracket(loc.b))
    /\ UNCHANGED <<args, bs, gk, gen, hist, resp, other>>

\* a loop body whose vega test skips the update and goes on ("continue")
NewtonStepContinue(p, diff, vega) ==
    IF ~IsFloat(p)
      THEN /\ IvReturn(Caught(p), "raised")
           /\ cnt' = [cnt EXCEPT !.newton = @ + 1, !.price = @ + 1]
           /\ UNCHANGED loc
    ELSE IF Abs(diff) < args.tolerance
      THEN /\ IvReturn(Val(loc.sigma, {}), "newton")
           /\ cnt' = [cnt EXCEPT !.newton = @ + 1, !.price = @ + 1]
           /\ UNCHANGED loc
    ELSE IF ~IsFloat(vega)
      THEN /\ IvReturn(Caught(vega), "raised")
           /\ cnt' = [cnt EXCEPT !.newton = @ + 1, !.price = @ + 1,
                                 !.vega = @ + 1]
           /\ UNCHANGED loc
    ELSE /\ loc' = [loc EXCEPT !.i = @ + 1,
                      !.sigma = IF vega.v < VegaMin THEN @
                                ELSE Clamp(SubFx(@, DivFx(diff, vega.v)))]
         /\ cnt' = [cnt EXCEPT !.newton = @ + 1, !.price = @ + 1,
                               !.vega = @ + 1]
         /\ UNCHANGED <<pc, ret>>

\* the loop body of the fallback: p the price, diff = p - market_price,
\* vega = greeks.vega() * 100
NewtonStep(p, diff, vega) ==
    IF ~IsFloat(p)
      THEN /\ IvReturn(Caught(p), "raised")
           /\ cnt' = [cnt EXCEPT !.newton = @ + 1, !.price = @ + 1]
           /\ UNCHANGED loc
    ELSE IF Abs(diff) < args.tolerance
      THEN /\ IvReturn(Val(loc.sigma, {}), "newton")
           /\ cnt' = [cnt EXCEPT !.newton = @ + 1, !.price = @ + 1]
           /\ UNCHANGED loc
    ELSE IF ~IsFloat(vega)
      THEN /\ IvReturn(Caught(vega), "raised")
           /\ cnt' = [cnt EXCEPT !.newton = @ + 1, !.price = @ + 1,
                                 !.vega = @ + 1]
           /\ UNCHANGED loc
    ELSE IF vega.v < VegaMin
      THEN /\ IvReturn(None, "vega")
           /\ cnt' = [cnt EXCEPT !.newton = @ + 1, !.price = @ + 1,
                                 !.vega = @ + 1]
           /\ UNCHANGED loc
    ELSE /\ loc' = [loc EXCEPT !.i = @ + 1,
                      !.sigma = Clamp(SubFx(loc.sigma, DivFx(diff, vega.v)))]
         /\ cnt' = [cnt EXCEPT !.newton = @ + 1, !.price = @ + 1,
                               !.vega = @ + 1]
         /\ UNCHANGED <<pc, ret>>

NewtonPass(p, vega) == NewtonStep(p, SubFx(p.v, args.market_price), vega)

\* a range that yields one value more than range(n)
RangeDoneInclusive(i, n) == i > n

\* for _ in range(n): no value is left after i passes
RangeDone(i, n) == i >= n

\* one iteration of the Newton-Raphson loop, or its end
NewtonIter ==
    /\ pc = "newton"
    /\ IF RangeDone(loc.i, args.max_iterations)
         THEN IvReturn(None, "exhausted") /\ UNCHANGED <<loc, cnt>>
         ELSE NewtonPass(Price(args.S, args.K, args.T, args.r, loc.sigma,
                               args.option_type),
                         UnitVega(args, loc.sigma))
    /\ UNCHANGED <<args, bs, gk, gen, hist, resp, other>>

NextIV ==
    \/ IvPrecheck
    \/ BrentqCall
    \/ BrentIter
    \/ NewtonIter

SpecIV == InitIV /\ [][NextIV]_vars

(* ---------------------------------------------------------------------- *)
(* Repeated requests in one process                                        *)
(* ---------------------------------------------------------------------- *)

\* number of distinct earlier calls a session remembers
NCalls == 2

\* the requests of a session: a call struck at 110 the solver brackets, a
\* call struck at 50 it cannot bracket (three iterations allowed), and an
\* expiring put
RepeatArgs ==
    {Request(Price(100 * ONE, 110 * ONE, ONE \div 4, ONE \div 20, ONE \div 5,
                   StrCall).v,
             100 * ONE, 110 * ONE, ONE \div 4, ONE \div 20, ONE \div 5, StrCall,
             DefaultGuess, DefaultMaxIter, DefaultTol),
     Request(503 * (ONE \div 10), 100 * ONE, 50 * ONE, ONE \div 4, ONE \div 20,
             ONE \div 5, <<"C", "A", "L", "L">>, DefaultGuess, 3, DefaultTol),
     Request(10 * ONE, 100 * ONE, 110 * ONE, 0, ONE \div 20, ONE \div 5, StrPut,
             DefaultGuess, DefaultMaxIter, DefaultTol)}

InitRepeat ==
    /\ args \in RepeatArgs
    /\ Built(args)
    /\ Fresh
    /\ gen = 0

\* the call that just returned, as the session remembers it
Finished == [op |-> ret.op, args |-> args, val |-> ret.val, path |-> ret.path]

\* the next call starts in a new frame: no local of the last one survives
NextFrame ==
    /\ pc = "returned"
    /\ Cardinality(hist \cup {Finished}) <= NCalls
    /\ hist' = hist \cup {Finished}
    /\ pc' = "ready"
    /\ loc' = NoLoc
    /\ cnt' = NoCnt
    /\ ret' = NoRet
    /\ UNCHANGED <<gen, resp, other>>

\* another method is called on the same objects, or the solver again
CallAgain ==
    /\ NextFrame
    /\ UNCHANGED <<args, bs, gk>>

\* another request arrives and both objects are built anew
NewRequest ==
    /\ NextFrame
    /\ args' \in RepeatArgs
    /\ bs' = NewModel(args'.S, args'.K, args'.T, args'.r, args'.sigma)
    /\ gk' = NewGreeks(args'.S, args'.K, args'.T, args'.r, args'.sigma,
                       args'.option_type)

NextRepeat ==
    \/ DoPrice
    \/ DoDelta
    \/ DoGamma
    \/ DoTheta
    \/ DoVega
    \/ DoRho
    \/ IvPrecheck
    \/ BrentqCall
    \/ BrentIter
    \/ NewtonIter
    \/ CallAgain
    \/ NewRequest

SpecRepeat == InitRepeat /\ [][NextRepeat]_vars

(* ---------------------------------------------------------------------- *)
(* The /implied-volatility route (api/routes/options.py)                   *)
(* ---------------------------------------------------------------------- *)

\* ImpliedVolatilityRequest: what the schema lets through to the handler
IvRequestValid(a) ==
    /\ a.market_price > 0 /\ a.S > 0 /\ a.K > 0 /\ a.T > 0
    /\ a.r >= 0 /\ a.r <= ONE
    /\ a.option_type \in {StrCall, StrPut}

\* quotes sent to the route: 0 (refused by the schema), 0.01, 1.0, 50.3,
\* 99.0 and 150.0, above every model price
RoutePrices == DirectPrices \cup {150 * ONE}

\* a request arrives; the handler calls the solver with default tuning
InitRoute ==
    /\ \E mp \in RoutePrices, K \in IvStrikes, r \in RVals,
          ot \in {StrCall, StrPut} :
          args = IvArgs(mp, 100 * ONE, K, ONE \div 4, r, ot,
                        DefaultGuess, DefaultMaxIter, DefaultTol)
    /\ IvRequestValid(args)
    /\ Built(args)
    /\ Fresh
    /\ gen = 0

\* raise HTTPException(status_code=400, ...)
RouteError ==
    [status |-> 400, implied_volatility |-> None, market_price |-> None,
     model_price |-> None, difference |-> None]

\* a handler that answers "no solution" with an error status
RouteAbsentAsError(mp) == RouteError

\* lines 90-96: the response when the solver returned None
RouteAbsent(mp) ==
    [status |-> 200, implied_volatility |-> None,
     market_price |-> Val(mp, {}), model_price |-> None, difference |-> None]

\* lines 98-107: the model price p at the volatility found and the response
RouteFound(iv, mp, p) ==
    IF ~IsFloat(p) THEN RouteError
    ELSE [status |-> 200, implied_volatility |-> Val(iv, {}),
          market_price |-> Val(mp, {}), model_price |-> Val(p.v, {}),
          difference |-> Val(Abs(SubFx(p.v, mp)), {})]

\* the handler's body after the solver returned iv
RouteResponse(a, iv) ==
    IF IsExc(iv) THEN RouteError
    ELSE IF iv = None THEN RouteAbsent(a.market_price)
    ELSE RouteFound(iv.v, a.market_price,
                    Price(a.S, a.K, a.T, a.r, iv.v, a.option_type))

\* the handler builds its response from what the solver returned
RouteRespond ==
    /\ pc = "returned"
    /\ ret.op = "implied_volatility"
    /\ pc' = "responded"
    /\ resp' = RouteResponse(args, ret.val)
    /\ UNCHANGED <<args, bs, gk, ret, loc, cnt, gen, hist, other>>

NextRoute ==
    \/ IvPrecheck
    \/ BrentqCall
    \/ BrentIter
    \/ NewtonIter
    \/ RouteRespond

SpecRoute == InitRoute /\ [][NextRoute]_vars

(* ---------------------------------------------------------------------- *)
(* Validation of requests (utils/input_validation.py, schemas)             *)
(* ---------------------------------------------------------------------- *)

\* the tuple (is_valid, error_message): v is 1 for True, 0 for False
Verdict(ok, m) ==
    [tag |-> "tuple", v |-> IF ok THEN 1 ELSE 0, msg |-> m, ev |-> {}]

\* validate_option_inputs without the ten-year limit on T
ValidateNoHorizon(S, K, T, r, sigma) ==
    IF S <= 0 THEN Verdict(FALSE, "Stock price must be positive")
    ELSE IF K <= 0 THEN Verdict(FALSE, "Strike price must be positive")
    ELSE IF T < 0
      THEN Verdict(FALSE, "Time to expiration cannot be negative")
    ELSE IF r < 0 \/ r > ONE
      THEN Verdict(FALSE,
                   "Risk-free rate must be between 0 and 1 (0% to 100%)")
    ELSE IF sigma <= 0 THEN Verdict(FALSE, "Volatility must be positive")
    ELSE IF sigma > 5 * ONE
      THEN Verdict(FALSE, "Volatility too high (max 500%)")
    ELSE Verdict(TRUE, "")

\* validate_option_inputs(S, K, T, r, sigma)
ValidateOptionInputs(S, K, T, r, sigma) ==
    IF S <= 0 THEN Verdict(FALSE, "Stock price must be positive")
    ELSE IF K <= 0 THEN Verdict(FALSE, "Strike price must be positive")
    ELSE IF T < 0
      THEN Verdict(FALSE, "Time to expiration cannot be negative")
    ELSE IF T > 10 * ONE
      THEN Verdict(FALSE, "Time to expiration too large (max 10 years)")
    ELSE IF r < 0 \/ r > ONE
      THEN Verdict(FALSE,
                   "Risk-free rate must be between 0 and 1 (0% to 100%)")
    ELSE IF sigma <= 0 THEN Verdict(FALSE, "Volatility must be positive")
    ELSE IF sigma > 5 * ONE
      THEN Verdict(FALSE, "Volatility too high (max 500%)")
    ELSE Verdict(TRUE, "")

\* the first field of OptionPricingRequest whose constraint fails, or "" 
SchemaFault(a) ==
    IF ~(a.S > 0) THEN "S"
    ELSE IF ~(a.K > 0) THEN "K"
    ELSE IF ~(a.T > 0) THEN "T"
    ELSE IF ~(a.r >= 0 /\ a.r <= ONE) THEN "r"
    ELSE IF ~(a.sigma > 0 /\ a.sigma <= 5 * ONE) THEN "sigma"
    ELSE IF a.option_type \notin {StrCall, StrPut} THEN "option_type"
    ELSE ""

\* OptionPricingRequest(**a): the model, or pydantic's ValidationError
OptionPricingRequest(a) ==
    IF SchemaFault(a) = ""
      THEN [tag |-> "dict", v |-> 1, msg |-> "", ev |-> {}]
      ELSE Exc("ValidationError", SchemaFault(a), {})

\* times to expiration around the limits 0 and 10 years
HorizonVals == {-(ONE \div 4), 0, ONE \div 4, 10 * ONE, 11 * ONE}

\* rates around the limits 0 and 1
RateVals == {-(ONE \div 100), 0, ONE \div 20, ONE, 101 * (ONE \div 100)}

\* volatilities around the limits 0 and 5
VolVals == {-(ONE \div 5), 0, ONE \div 5, 5 * ONE, 501 * (ONE \div 100)}

\* a parameter set arrives for validation
InitValidation ==
    /\ \E S \in SVals, K \in KVals, T \in HorizonVals, r \in RateVals,
          sigma \in VolVals, ot \in {StrCall, StrPut, <<"C", "A", "L", "L">>} :
          args = PricingArgs(S, K, T, r, sigma, ot)
    /\ Built(args)
    /\ Fresh
    /\ gen = 0

DoValidate ==
    Return("validate_option_inputs",
           ValidateOptionInputs(args.S, args.K, args.T, args.r, args.sigma))

DoSchema == Return("OptionPricingRequest", OptionPricingRequest(args))

NextValidation ==
    \/ DoValidate
    \/ DoSchema

SpecValidation == InitValidation /\ [][NextValidation]_vars

(* ---------------------------------------------------------------------- *)
(* RiskFreeRateService (services/risk_free_rate.py)                        *)
(* ---------------------------------------------------------------------- *)

\* default_rate of get_risk_free_rate_for_maturity
DefaultRate == 300000

\* number of Treasury yields tried above 0 %, in steps of 0.75 %
NYield == 6

\* what yfinance hands back: an exception, an empty frame, or a last close
\* in percent
FetchOutcomes ==
    {[kind |-> "error", close |-> 0], [kind |-> "empty", close |-> 0]}
      \cup {[kind |-> "close", close |-> 3 * i * (ONE \div 4)] : i \in 0..NYield}

\* times to expiration around the limits 0.25, 1 and 5 years
MaturityVals ==
    HorizonVals \cup {ONE \div 2, ONE, 2 * ONE, 5 * ONE, 6 * ONE}

\* the maturity get_risk_free_rate_for_maturity asks for
MaturityFor(T) ==
    IF T <= ONE \div 4 THEN "3M"
    ELSE IF T <= ONE THEN "1Y"
    ELSE IF T <= 5 * ONE THEN "5Y"
    ELSE "10Y"

\* get_treasury_rate: the close / 100, None on an empty frame or an exception
GetTreasuryRate(f) ==
    IF f.kind = "close" THEN Val(f.close \div 100, {}) ELSE None

\* rate if rate is not None else default_rate
RateOrDefault(rate) == IF rate = None THEN Val(DefaultRate, {}) ELSE rate

\* a time to expiration arrives
InitRate ==
    /\ \E T \in MaturityVals :
          args = PricingArgs(100 * ONE, 100 * ONE, T, 0, ONE \div 5, StrCall)
    /\ Built(args)
    /\ Fresh
    /\ gen = 0

\* lines 67-74: get_treasury_rate is called for the maturity and returns
FetchTreasury ==
    /\ pc = "ready"
    /\ \E f \in FetchOutcomes :
          ret' = [op |-> "get_treasury_rate", val |-> GetTreasuryRate(f),
                  path |-> MaturityFor(args.T)]
    /\ pc' = "fetched"
    /\ UNCHANGED <<args, bs, gk, loc, cnt, gen, hist, resp, other>>

\* line 76: the rate or the default is returned
RateReturn ==
    /\ pc = "fetched"
    /\ hist' = hist \cup {Finished}
    /\ ret' = [op |-> "get_risk_free_rate_for_maturity",
               val |-> RateOrDefault(ret.val), path |-> ret.path]
    /\ pc' = "returned"
    /\ UNCHANGED <<args, bs, gk, loc, cnt, gen, resp, other>>

NextRate ==
    \/ FetchTreasury
    \/ RateReturn

SpecRate == InitRate /\ [][NextRate]_vars

(* ---------------------------------------------------------------------- *)
(* Two calls in progress at once                                           *)
(* ---------------------------------------------------------------------- *)

\* number of finished calls a run remembers
NDone == 2

\* the requests served concurrently: a call struck at 110 the solver
\* brackets (tolerance 0.01), and a call struck at 50 it cannot bracket
\* (three iterations allowed)
ConcArgs ==
    {Request(Price(100 * ONE, 110 * ONE, ONE \div 4, ONE \div 20, ONE \div 5,
                   StrCall).v,
             100 * ONE, 110 * ONE, ONE \div 4, ONE \div 20, ONE \div 5, StrCall,
             DefaultGuess, DefaultMaxIter, ONE \div 100),
     Request(503 * (ONE \div 10), 100 * ONE, 50 * ONE, ONE \div 4, ONE \div 20,
             ONE \div 5, StrCall, DefaultGuess, 3, DefaultTol)}

\* the frame of a call that has not started, its objects built from a
NewFrame(a) ==
    [args |-> a, bs |-> NewModel(a.S, a.K, a.T, a.r, a.sigma),
     gk |-> NewGreeks(a.S, a.K, a.T, a.r, a.sigma, a.option_type),
     pc |-> "ready", ret |-> NoRet, loc |-> NoLoc, cnt |-> NoCnt]

\* the frame of the call that is running
Running ==
    [args |-> args, bs |-> bs, gk |-> gk, pc |-> pc, ret |-> ret,
     loc |-> loc, cnt |-> cnt]

\* two requests arrive; one call runs, the other waits
InitConc ==
    /\ args \in ConcArgs
    /\ Built(args)
    /\ pc = "ready" /\ ret = NoRet /\ loc = NoLoc /\ cnt = NoCnt
    /\ \E a \in ConcArgs : other = NewFrame(a)
    /\ hist = {} /\ resp = NoResp /\ gen = 0

\* a switch between calls that share one pair of model objects
SwitchSharingObjects ==
    /\ other' = Running
    /\ args' = other.args
    /\ pc' = other.pc
    /\ ret' = other.ret
    /\ loc' = other.loc
    /\ cnt' = other.cnt
    /\ UNCHANGED <<bs, gk, gen, hist, resp>>

\* the running call is suspended and the other one resumed: each call has
\* its own arguments, objects and locals
Switch ==
    /\ other' = Running
    /\ args' = other.args
    /\ bs' = other.bs
    /\ gk' = other.gk
    /\ pc' = other.pc
    /\ ret' = other.ret
    /\ loc' = other.loc
    /\ cnt' = other.cnt
    /\ UNCHANGED <<gen, hist, resp>>

\* the running call has returned; the next request is served in its place
NextCall ==
    /\ pc = "returned"
    /\ Cardinality(hist \cup {Finished}) <= NDone
    /\ hist' = hist \cup {Finished}
    /\ args' \in ConcArgs
    /\ bs' = NewModel(args'.S, args'.K, args'.T, args'.r, args'.sigma)
    /\ gk' = NewGreeks(args'.S, args'.K, args'.T, args'.r, args'.sigma,
                       args'.option_type)
    /\ pc' = "ready"
    /\ ret' = NoRet
    /\ loc' = NoLoc
    /\ cnt' = NoCnt
    /\ UNCHANGED <<gen, resp, other>>

NextConc ==
    \/ DoPrice
    \/ DoAllGreeks
    \/ IvPrecheck
    \/ BrentqCall
    \/ BrentIter
    \/ NewtonIter
    \/ Switch
    \/ NextCall

SpecConc == InitConc /\ [][NextConc]_vars

(* ---------------------------------------------------------------------- *)
(* Properties                                                              *)
(* ---------------------------------------------------------------------- *)

\* C1: for every S, K, r and sigma (sigma = 0 included) and every T <= 0,
\* price returns exactly max(0, S - K) for a call and max(0, K - S) for a
\* put, and has evaluated neither d1, d2 nor the normal CDF (ev is empty).
C1_ExpiredPriceIsIntrinsic ==
    (pc = "returned" /\ ret.op = "price" /\ args.T <= 0) =>
        /\ Lower(args.option_type) = StrCall =>
              ret.val = Val(Max2(0, args.S - args.K), {})
        /\ Lower(args.option_type) = StrPut =>
              ret.val = Val(Max2(0, args.K - args.S), {})

\* an expiring call with sigma = 0, in the money, was priced at S - K
C1_ExpiredCallPriced ==
    /\ pc = "returned" /\ ret.op = "price"
    /\ args.T = 0 /\ args.sigma = 0 /\ args.option_type = StrCall
    /\ args.S > args.K
    /\ ret.val.v = args.S - args.K

\* C2: whenever T <= 0, or market_price <= 0, or market_price is below the
\* intrinsic floor of its side, the solver never leaves its first step: it
\* has evaluated no price and no vega, entered neither root-finder, and
\* what it returns is None.
C2_AbstainsBeforeSearch ==
    (\/ args.T <= 0
     \/ args.market_price <= 0
     \/ /\ args.option_type = StrCall
        /\ args.market_price < Max2(0, args.S - args.K)
     \/ /\ args.option_type = StrPut
        /\ args.market_price < Max2(0, args.K - args.S))
    => /\ pc \in {"ready", "returned"}
       /\ cnt = NoCnt
       /\ pc = "returned" => (ret.val = None /\ ret.path = "precondition")

\* a live put quoted above zero and below K - S was turned away
C2_PutBelowFloorAbsent ==
    /\ pc = "returned" /\ ret.path = "precondition"
    /\ args.T > 0 /\ args.market_price > 0
    /\ args.option_type = StrPut
    /\ args.market_price < args.K - args.S

\* C3: for every market price, S, K, T, r, every side string and every
\* initial_guess, max_iterations and tolerance, the solver ends by returning
\* a float or None, never an exception: it is always at one of its steps,
\* neither loop makes more than max_iterations passes, and what it has
\* returned is a float or None.
C3_ReturnsFloatOrNone ==
    /\ pc \in {"ready", "brentq", "brent_loop", "newton", "returned"}
    /\ cnt.brent <= Max2(0, args.max_iterations)
    /\ cnt.newton <= Max2(0, args.max_iterations)
    /\ pc = "returned" => ret.val.tag \in {"float", "None"}

\* the price function raised on a string that is no side, inside the
\* fallback, and the solver returned None
C3_RaisedInsideAndAbsent ==
    /\ pc = "returned" /\ ret.path = "raised" /\ ret.val = None
    /\ Lower(args.option_type) \notin {StrCall, StrPut}
    /\ loc.raised = "ValueError"

\* C4 (as amended): for a market price generated by price(S, K, T, r, sigma,
\* side) with T > 0, side "call" or "put" and sigma in [0.01, 3.0], the
\* solver with default tuning returns a float within 1e-4 of sigma whenever
\* the price is not below the intrinsic floor max(0, S - K) / max(0, K - S)
\* and the vega at sigma is at least 0.5 per unit of volatility.
C4_RoundTripRecovers ==
    (/\ pc = "returned" /\ gen # 0 /\ args.T > 0
     /\ args.option_type \in {StrCall, StrPut}
     /\ args.market_price >= (IF args.option_type = StrCall
                                THEN Max2(0, args.S - args.K)
                                ELSE Max2(0, args.K - args.S))
     /\ IsFloat(UnitVega(args, gen))
     /\ UnitVega(args, gen).v >= ONE \div 2)
    => /\ IsFloat(ret.val)
       /\ Abs(ret.val.v - gen) < ONE \div 10000

\* C4 as stated, on the prices that are sensitive to sigma: every generated
\* price is answered with a float within 1e-4 of sigma.
C4_RoundTripAsStated ==
    (/\ pc = "returned" /\ gen # 0 /\ args.T > 0
     /\ args.option_type \in {StrCall, StrPut}
     /\ IsFloat(UnitVega(args, gen))
     /\ UnitVega(args, gen).v >= ONE \div 2)
    => /\ IsFloat(ret.val)
       /\ Abs(ret.val.v - gen) < ONE \div 10000

\* brentq iterated on a generated put price and handed back its sigma
C4_PutRecoveredByBrentq ==
    /\ pc = "returned" /\ ret.path = "brentq" /\ cnt.brent >= 3
    /\ gen = ONE \div 5 /\ args.option_type = StrPut
    /\ IsFloat(ret.val)
    /\ Abs(ret.val.v - gen) < ONE \div 10000

\* C5: for every S, K, T >= 0, r and sigma the kernel prices (the T = 0
\* intrinsic branch included), call_price() - put_price() is within 1e-6 of
\* S - K * exp(-r T).
C5_PutCallParity ==
    (pc = "returned" /\ ret.op = "call_price" /\ args.T >= 0
       /\ IsFloat(ret.val))
    => /\ IsFloat(PutPrice(bs.S, bs.K, bs.T, bs.r, bs.sigma))
       /\ Abs((ret.val.v - PutPrice(bs.S, bs.K, bs.T, bs.r, bs.sigma).v)
              - (bs.S - DiscK(bs.K, bs.T, bs.r))) <= ONE \div 1000000

\* a live call was priced at a positive rate, where discounting matters
C5_LiveCallPriced ==
    /\ pc = "returned" /\ ret.op = "call_price" /\ IsFloat(ret.val)
    /\ args.T > 0 /\ args.r > 0 /\ args.sigma > 0
    /\ ret.val.v > 0
    /\ PutPrice(bs.S, bs.K, bs.T, bs.r, bs.sigma).v > 0

C7_ExpiredGreeks ==
    (/\ pc = "returned" /\ args.T <= 0
     /\ Lower(args.option_type) \in {StrCall, StrPut})
    => /\ ret.op \in {"gamma", "theta", "vega", "rho"} => ret.val = Val(0, {})
       /\ ret.op = "delta" =>
             ret.val = Val(IF Lower(args.option_type) = StrCall /\ args.S > args.K
                             THEN ONE
                           ELSE IF Lower(args.option_type) = StrPut
                                   /\ args.S < args.K
                             THEN -ONE
                           ELSE 0,
                           {})

\* delta of an expired at-the-money call with sigma = 0 came back as 0
C7_AtMoneyDeltaZero ==
    /\ pc = "returned" /\ ret.op = "delta"
    /\ args.T <= 0 /\ args.sigma = 0 /\ args.S = args.K
    /\ args.option_type = StrCall
    /\ ret.val = Val(0, {})

\* C8: for every S, K, T, r, sigma, gamma() and vega() of a Greeks object
\* are what the object built as a call and the object built as a put both
\* return.
C8_GammaVegaSideFree ==
    /\ (pc = "returned" /\ ret.op = "gamma") =>
          /\ ret.val = Gamma(gk.S, gk.K, gk.T, gk.r, gk.sigma, GreeksType(StrCall))
          /\ ret.val = Gamma(gk.S, gk.K, gk.T, gk.r, gk.sigma, GreeksType(StrPut))
    /\ (pc = "returned" /\ ret.op = "vega") =>
          /\ ret.val = Vega(gk.S, gk.K, gk.T, gk.r, gk.sigma, GreeksType(StrCall))
          /\ ret.val = Vega(gk.S, gk.K, gk.T, gk.r, gk.sigma, GreeksType(StrPut))

\* gamma of a live put came back positive
C8_PutGammaPositive ==
    /\ pc = "returned" /\ ret.op = "gamma" /\ IsFloat(ret.val)
    /\ gk.option_type = StrPut /\ args.T > 0
    /\ ret.val.v > 0

\* C9: price raises the invalid-option-type error, having evaluated nothing
\* and changed no field, for every side string that lowers to neither "call"
\* nor "put", whatever T is; for a string that lowers to "call" or "put" it
\* returns what it returns for the lower-case literal, never that error, and
\* a float whenever T <= 0 or S, K and sigma are positive.
C9_InvalidSideRejected ==
    (pc = "returned" /\ ret.op = "price") =>
        /\ Lower(args.option_type) \notin {StrCall, StrPut} =>
              /\ ret.val = Exc("ValueError", MsgOptionType, {})
              /\ bs = NewModel(args.S, args.K, args.T, args.r, args.sigma)
              /\ gk = NewGreeks(args.S, args.K, args.T, args.r, args.sigma,
                                args.option_type)
        /\ Lower(args.option_type) \in {StrCall, StrPut} =>
              /\ ret.val = Price(args.S, args.K, args.T, args.r, args.sigma,
                                 Lower(args.option_type))
              /\ ret.val.msg # MsgOptionType
              /\ (args.T <= 0 \/ (args.S > 0 /\ args.K > 0 /\ args.sigma > 0))
                    => IsFloat(ret.val)

\* an upper-case CALL was priced on a live option
C9_UpperCasePriced ==
    /\ pc = "returned" /\ ret.op = "price" /\ IsFloat(ret.val)
    /\ args.option_type = <<"C", "A", "L", "L">>
    /\ args.T > 0 /\ ret.val.v > 0

\* C10: a call that returns after an earlier call of the same operation with
\* the same arguments, whatever was called in between, took the same path
\* and returned the same value; this holds for the solver, for price and
\* for every Greek.
C10_SameInputsSameResult ==
    pc = "returned" =>
        \A h \in hist :
            (h.op = ret.op /\ h.args = args) =>
                (h.val = ret.val /\ h.path = ret.path)

\* the solver bracketed a root a second time, another call in between
C10_SolverRanTwice ==
    /\ pc = "returned" /\ ret.op = "implied_volatility" /\ ret.path = "brentq"
    /\ Cardinality(hist) >= 2
    /\ \E h \in hist : h.op = ret.op /\ h.args = args /\ h.val = ret.val

ExampleQuote(K) ==
    args = IvArgs(ONE \div 100, 100 * ONE, K, ONE \div 4, ONE \div 20, StrCall,
                  DefaultGuess, DefaultMaxIter, DefaultTol)

\* C12 (as amended): for market_price = 0.01, S = 100, K = 110, T = 0.25,
\* r = 0.05, "call" the intrinsic floor is 0, the solver brackets a root and
\* returns a float within 1e-4 of 0.0692 whose model price is within 1e-4 of
\* 0.01; the same quote on the call struck at 90 (intrinsic value 10) is
\* below the floor and returns None.
C12_OutOfMoneyQuoteSolved ==
    /\ (pc = "returned" /\ ExampleQuote(110 * ONE)) =>
          /\ IsFloat(ret.val) /\ ret.path = "brentq"
          /\ Abs(ret.val.v - 692 * (ONE \div 10000)) < ONE \div 10000
          /\ Abs(Objective(args, ret.val.v)) < ONE \div 10000
    /\ (pc = "returned" /\ ExampleQuote(90 * ONE)) =>
          (ret.val = None /\ ret.path = "precondition")

\* C12 as stated: the example request returns None.
C12_ExampleAbsent ==
    (pc = "returned" /\ ExampleQuote(110 * ONE)) => ret.val = None

\* the example request was answered by brentq with a float
C12_ExampleAnswered ==
    /\ pc = "returned" /\ ExampleQuote(110 * ONE)
    /\ IsFloat(ret.val) /\ ret.path = "brentq" /\ cnt.brent > 1


\* C13: with sigma = 0 and T > 0, for every S, K, r and side, price, delta,
\* gamma, theta, vega and rho end in an exception and return no number; for
\* S > 0, K > 0 and a valid side it is the ZeroDivisionError of _d1's
\* division by sigma * sqrt(T), raised before norm.cdf or norm.pdf is called.
C13_ZeroSigmaRaises ==
    (/\ pc = "returned"
     /\ ret.op \in {"price", "delta", "gamma", "theta", "vega", "rho"}
     /\ bs.sigma = 0 /\ gk.sigma = 0 /\ bs.T > 0)
    => /\ IsExc(ret.val)
       /\ (bs.S > 0 /\ bs.K > 0 /\ Lower(args.option_type) \in {StrCall, StrPut})
            => /\ ret.val.tag = "ZeroDivisionError"
               /\ ret.val.ev \cap {"norm.cdf", "norm.pdf"} = {}

\* vega on a live option with sigma = 0 raised ZeroDivisionError
C13_VegaDividedByZero ==
    /\ pc = "returned" /\ ret.op = "vega"
    /\ gk.sigma = 0 /\ gk.T > 0 /\ gk.S > 0 /\ gk.K > 0
    /\ ret.val.tag = "ZeroDivisionError"


\* C14: when the solver returned None the route answers with status 200, a
\* body whose implied_volatility, model_price and difference are null and
\* whose market_price is the request's; and in every response with status
\* 200 the three fields are all null or all numbers.
C14_AbsentIsNullBody ==
    pc = "responded" =>
        /\ ret.val = None =>
              /\ resp.status = 200
              /\ resp.implied_volatility = None
              /\ resp.model_price = None
              /\ resp.difference = None
              /\ resp.market_price = Val(args.market_price, {})
        /\ resp.status = 200 =>
              \/ /\ resp.implied_volatility = None
                 /\ resp.model_price = None
                 /\ resp.difference = None
              \/ /\ IsFloat(resp.implied_volatility)
                 /\ IsFloat(resp.model_price)
                 /\ IsFloat(resp.difference)

\* a quote the solver's fallback gave up on was answered with nulls
C14_FallbackFailureAnswered ==
    /\ pc = "responded" /\ ret.val = None /\ ret.path # "precondition"
    /\ resp.status = 200 /\ resp.implied_volatility = None
    /\ resp.market_price.v = 150 * ONE


\* C15 (as amended): validate_option_inputs returns (True, "") exactly when
\* S > 0, K > 0, 0 <= T <= 10, 0 <= r <= 1 and 0 < sigma <= 5;
\* OptionPricingRequest admits a request with side "call" or "put" exactly
\* when S > 0, K > 0, T > 0, 0 <= r <= 1 and 0 < sigma <= 5; so whatever
\* either accepts has S > 0, K > 0, T >= 0, 0 <= r <= 1 and 0 < sigma <= 5,
\* and a rejection carries a message or names a field.
C15_AcceptsWithinRange ==
    pc = "returned" =>
        /\ ret.op = "validate_option_inputs" =>
              /\ (ret.val = Verdict(TRUE, ""))
                   <=> /\ args.S > 0 /\ args.K > 0
                       /\ args.T >= 0 /\ args.T <= 10 * ONE
                       /\ args.r >= 0 /\ args.r <= ONE
                       /\ args.sigma > 0 /\ args.sigma <= 5 * ONE
              /\ ret.val.v = 0 <=> ret.val.msg # ""
        /\ ret.op = "OptionPricingRequest" =>
              /\ (ret.val.tag = "dict")
                   <=> /\ args.S > 0 /\ args.K > 0 /\ args.T > 0
                       /\ args.r >= 0 /\ args.r <= ONE
                       /\ args.sigma > 0 /\ args.sigma <= 5 * ONE
                       /\ args.option_type \in {StrCall, StrPut}
              /\ ret.val.tag \in {"dict", "ValidationError"}
        /\ (ret.val.tag = "dict" \/ ret.val = Verdict(TRUE, "")) =>
              /\ args.S > 0 /\ args.K > 0 /\ args.T >= 0
              /\ args.r >= 0 /\ args.r <= ONE
              /\ args.sigma > 0 /\ args.sigma <= 5 * ONE

\* C15 as stated: each of the two accepts exactly the sets with S > 0, K > 0,
\* T >= 0, 0 <= r <= 1 and 0 < sigma <= 5 (the schema for the sides "call"
\* and "put").
C15_AcceptsExactlyRange ==
    (pc = "returned" /\ args.option_type \in {StrCall, StrPut}) =>
        ((ret.val.tag = "dict" \/ ret.val = Verdict(TRUE, ""))
           <=> /\ args.S > 0 /\ args.K > 0 /\ args.T >= 0
               /\ args.r >= 0 /\ args.r <= ONE
               /\ args.sigma > 0 /\ args.sigma <= 5 * ONE)

\* eleven years to expiration, everything else in range, was turned away by
\* validate_option_inputs
C15_LongHorizonRejected ==
    /\ pc = "returned" /\ ret.op = "validate_option_inputs"
    /\ args.S > 0 /\ args.K > 0 /\ args.r = ONE /\ args.sigma = 5 * ONE
    /\ args.T = 11 * ONE
    /\ ret.val = Verdict(FALSE, "Time to expiration too large (max 10 years)")


\* C16: get_risk_free_rate_for_maturity returns a float, never None and never
\* an exception: the rate get_treasury_rate fetched when there is one, and
\* the documented default 0.045 when the fetch failed or gave no rate.
C16_FetchedRateOrDocumentedDefault ==
    (pc = "returned" /\ ret.op = "get_risk_free_rate_for_maturity") =>
        /\ IsFloat(ret.val)
        /\ \A h \in hist :
              /\ IsFloat(h.val) => ret.val = h.val
              /\ h.val = None => ret.val = Val(45 * (ONE \div 1000), {})


\* C17: whenever delta() returns a number it lies in [0, 1] on an object
\* built as a call and in [-1, 0] on one built as a put (the side lowered by
\* the constructor), for T > 0 and for T <= 0.
C17_DeltaInRange ==
    (pc = "returned" /\ ret.op = "delta" /\ IsFloat(ret.val)) =>
        /\ Lower(args.option_type) = StrCall =>
              (ret.val.v >= 0 /\ ret.val.v <= ONE)
        /\ Lower(args.option_type) = StrPut =>
              (ret.val.v >= -ONE /\ ret.val.v <= 0)

\* a live put built from the spelling "Put" has a delta strictly between
\* -1 and 0
C17_LivePutDelta ==
    /\ pc = "returned" /\ ret.op = "delta" /\ IsFloat(ret.val)
    /\ args.option_type = <<"P", "u", "t">> /\ gk.option_type = StrPut
    /\ gk.T > 0
    /\ ret.val.v > -ONE /\ ret.val.v < 0


\* C18: under every interleaving of two calls in progress, a call that
\* returns has taken the path and returned the value of every earlier call
\* of the same operation with the same arguments, the calls that ran with
\* the other one idle included; and the objects and locals of the suspended
\* call are the ones it was suspended with.
C18_InterleavingInvisible ==
    /\ pc = "returned" =>
          \A h \in hist :
              (h.op = ret.op /\ h.args = args) =>
                  (h.val = ret.val /\ h.path = ret.path)
    /\ bs = NewModel(args.S, args.K, args.T, args.r, args.sigma)
    /\ other.bs = NewModel(other.args.S, other.args.K, other.args.T,
                           other.args.r, other.args.sigma)
    /\ other.pc \in {"ready", "brentq"} => other.loc = NoLoc

\* the solver returned a bracketed root it had returned before, while the
\* other call, on another request, was in the middle of its Newton loop
C18_SolvedBesideNewton ==
    /\ pc = "returned" /\ ret.op = "implied_volatility" /\ ret.path = "brentq"
    /\ other.pc = "newton" /\ other.cnt.newton > 0 /\ other.args # args
    /\ \E h \in hist : h.op = ret.op /\ h.args = args


\* C19: before and after every method of BlackScholesModel (price,
\* call_price, put_price, get_d1_d2) and of Greeks (delta, gamma, theta,
\* vega, rho, all_greeks), whether it returned or raised, S, K, T, r and
\* sigma of both objects are the values the constructor was given, and
\* option_type of the Greeks object is the constructor's argument lowered.
C19_FieldsAsConstructed ==
    /\ pc \in {"ready", "returned"}
    /\ pc = "returned" =>
          ret.op \in {"price", "call_price", "put_price", "get_d1_d2", "delta",
                      "gamma", "theta", "vega", "rho", "all_greeks"}
    /\ bs.S = args.S /\ bs.K = args.K /\ bs.T = args.T
    /\ bs.r = args.r /\ bs.sigma = args.sigma
    /\ DOMAIN bs = {"S", "K", "T", "r", "sigma"}
    /\ gk.S = args.S /\ gk.K = args.K /\ gk.T = args.T
    /\ gk.r = args.r /\ gk.sigma = args.sigma
    /\ gk.option_type = Lower(args.option_type)
    /\ DOMAIN gk = {"S", "K", "T", "r", "sigma", "option_type"}

\* theta raised on a live object built from "CALL" with sigma = 0, and the
\* object still holds "call" and the spot it was given
C19_RaisedAndUntouched ==
    /\ pc = "returned" /\ ret.op = "theta" /\ IsExc(ret.val)
    /\ args.option_type = <<"C", "A", "L", "L">> /\ gk.option_type = StrCall
    /\ gk.sigma = 0 /\ gk.T > 0 /\ gk.S = args.S


\* C20: for T > 0 and a side that lowers to "call" or "put", what the
\* accessors return carries its unit once: vega() times 100 is
\* S * pdf(d1) * sqrt(T), rho() times 100 is +-K * T * exp(-rT) * cdf(+-d2),
\* theta() times 365 is the annual theta (each up to the rounding of the
\* division), delta() is cdf(d1) or cdf(d1) - 1 and gamma() is
\* pdf(d1) / (S * sigma * sqrt(T)) with no factor; all_greeks() returns a
\* dict with exactly the keys delta, gamma, theta, vega, rho holding the
\* values of the five accessors.
C20_UnitsAppliedOnce ==
    (/\ pc = "returned" /\ gk.T > 0 /\ gk.option_type \in {StrCall, StrPut}
     /\ ret.val.tag \in {"float", "dict"})
    => /\ ret.op = "vega" =>
            /\ Abs(ret.val.v) <= MaxFx \div 100
            /\ Abs(ret.val.v * 100
                - MulFx(MulFx(gk.S, PdfFx(D1(gk.S, gk.K, gk.T, gk.r,
                                             gk.sigma).v)),
                        SqrtFx(gk.T))) < 100
       /\ ret.op = "rho" =>
            /\ Abs(ret.val.v) <= MaxFx \div 100
            /\ Abs(ret.val.v * 100
                - (IF gk.option_type = StrCall
                     THEN MulFx(MulFx(MulFx(gk.K, gk.T),
                                      ExpFx(-MulFx(gk.r, gk.T))),
                                CdfFx(D2(gk.S, gk.K, gk.T, gk.r, gk.sigma).v))
                     ELSE -MulFx(MulFx(MulFx(gk.K, gk.T),
                                       ExpFx(-MulFx(gk.r, gk.T))),
                                 CdfFx(-D2(gk.S, gk.K, gk.T, gk.r,
                                           gk.sigma).v)))) < 100
       /\ ret.op = "theta" =>
            /\ Abs(ret.val.v) <= MaxFx \div 365
            /\ Abs(ret.val.v * 365
                - (IF gk.option_type = StrCall
                     THEN SubFx(ThetaTerm1(D1(gk.S, gk.K, gk.T, gk.r, gk.sigma),
                                           gk.S, gk.T, gk.sigma),
                                MulFx(MulFx(MulFx(gk.r, gk.K),
                                            ExpFx(-MulFx(gk.r, gk.T))),
                                      CdfFx(D2(gk.S, gk.K, gk.T, gk.r,
                                               gk.sigma).v)))
                     ELSE AddFx(ThetaTerm1(D1(gk.S, gk.K, gk.T, gk.r, gk.sigma),
                                           gk.S, gk.T, gk.sigma),
                                MulFx(MulFx(MulFx(gk.r, gk.K),
                                            ExpFx(-MulFx(gk.r, gk.T))),
                                      CdfFx(-D2(gk.S, gk.K, gk.T, gk.r,
                                                gk.sigma).v))))) < 365
       /\ ret.op = "delta" =>
            ret.val.v = CdfFx(D1(gk.S, gk.K, gk.T, gk.r, gk.sigma).v)
                          - (IF gk.option_type = StrCall THEN 0 ELSE ONE)
       /\ ret.op = "gamma" =>
            ret.val.v = DivFx(PdfFx(D1(gk.S, gk.K, gk.T, gk.r, gk.sigma).v),
                              MulFx(MulFx(gk.S, gk.sigma), SqrtFx(gk.T)))
       /\ ret.op = "all_greeks" =>
            /\ ret.val.tag = "dict"
            /\ DOMAIN ret.val.v = {"delta", "gamma", "theta", "vega", "rho"}
            /\ ret.val.v.delta
                 = Delta(gk.S, gk.K, gk.T, gk.r, gk.sigma, gk.option_type).v
            /\ ret.val.v.gamma
                 = Gamma(gk.S, gk.K, gk.T, gk.r, gk.sigma, gk.option_type).v
            /\ ret.val.v.theta
                 = Theta(gk.S, gk.K, gk.T, gk.r, gk.sigma, gk.option_type).v
            /\ ret.val.v.vega
                 = Vega(gk.S, gk.K, gk.T, gk.r, gk.sigma, gk.option_type).v
            /\ ret.val.v.rho
                 = Rho(gk.S, gk.K, gk.T, gk.r, gk.sigma, gk.option_type).v

\* all_greeks returned its dict for a live call at the money with a positive
\* vega, a negative theta and a positive rho
C20_LiveDictReturned ==
    /\ pc = "returned" /\ ret.op = "all_greeks" /\ ret.val.tag = "dict"
    /\ gk.T > 0 /\ gk.option_type = StrCall /\ gk.S = gk.K
    /\ ret.val.v.vega > 0 /\ ret.val.v.theta < 0 /\ ret.val.v.rho > 0

\* C21: the Newton-Raphson fallback starts only after the bracketed search has
\* raised. A root returned by the bracketed search is the result: no exception
\* was caught, no Newton iteration ran and no vega was computed. When the
\* bracketed search raises, the fallback is entered with sigma = initial_guess
\* before its first iteration, and every result on a fallback path follows a
\* raise.
C21_FallbackOnlyAfterRaise ==
    /\ (pc = "returned" /\ ret.path = "brentq") =>
          /\ IsFloat(ret.val)
          /\ loc.raised = "none"
          /\ cnt.newton = 0
          /\ cnt.vega = 0
    /\ (pc = "newton" \/ cnt.newton > 0 \/ cnt.vega > 0) =>
          loc.raised \in {"ValueError", "RuntimeError"}
    /\ (pc = "newton" /\ cnt.newton = 0) =>
          /\ loc.i = 0
          /\ loc.sigma = args.initial_guess
    /\ (pc = "returned"
          /\ ret.path \in {"newton", "vega", "exhausted", "raised"}) =>
          loc.raised \in {"ValueError", "RuntimeError"}
    /\ (pc \in {"brentq", "brent_loop"}) =>
          loc.raised = "none" /\ cnt.newton = 0 /\ cnt.vega = 0

\* the bracketed search ran out of iterations inside its loop and the fallback
\* is about to start from a guess of 6.0, outside the bracket
C21_FallbackEnteredAfterLoop ==
    /\ pc = "newton" /\ cnt.newton = 0
    /\ loc.raised = "RuntimeError" /\ cnt.brent > 0
    /\ args.initial_guess = 6 * ONE /\ loc.sigma = 6 * ONE

\* C22: each pass of the Newton-Raphson fallback first tests
\* |price(sigma_n) - market_price| < tolerance and returns sigma_n when it
\* holds, computing no vega; otherwise, when the loop goes on, the update is
\* sigma_n - (price(sigma_n) - market_price) / v (then clamped, C24), where v is
\* Greeks.vega() multiplied back by 100: the unit-volatility derivative
\* S * pdf(d1) * sqrt(T) up to the rounding of the division by 100, and not
\* the per-percentage-point vega.
C22_NewtonUpdateRule ==
    [][(/\ pc = "newton"
        /\ ~RangeDone(loc.i, args.max_iterations)
        /\ IsFloat(Price(args.S, args.K, args.T, args.r, loc.sigma,
                         args.option_type)))
       => IF Abs(SubFx(Price(args.S, args.K, args.T, args.r, loc.sigma,
                             args.option_type).v, args.market_price))
               < args.tolerance
            THEN /\ pc' = "returned"
                 /\ ret'.path = "newton"
                 /\ ret'.val = Val(loc.sigma, {})
                 /\ cnt'.vega = cnt.vega
            ELSE /\ ret'.path # "newton"
                 /\ cnt'.vega = cnt.vega + 1
                 /\ pc' = "newton" =>
                      /\ IsFloat(VegaDecimal(args, loc.sigma))
                      /\ VegaDecimal(args, loc.sigma).v >= 100
                      /\ loc'.i = loc.i + 1
                      /\ loc'.sigma =
                           Clamp(SubFx(loc.sigma,
                             DivFx(SubFx(Price(args.S, args.K, args.T, args.r,
                                               loc.sigma, args.option_type).v,
                                         args.market_price),
                                   (VegaDecimal(args, loc.sigma).v \div 100)
                                     * 100)))]_vars

\* the fallback has made an update that moved sigma strictly inside the
\* bracket, away from the guess: no clamp was active
C22_UpdatedInsideBracket ==
    /\ pc = "newton" /\ loc.i = 1 /\ cnt.newton = 1
    /\ loc.sigma > SigmaLo /\ loc.sigma < SigmaHi
    /\ loc.sigma # args.initial_guess

\* C23: when a pass of the fallback finds the current sigma not converged and
\* its unit-volatility vega below 1e-10, the fallback aborts at once: sigma is
\* not updated (nothing is divided by that vega), the pass has made one price
\* and one vega evaluation and none follows, and the solver returns None.
C23_SmallVegaAborts ==
    [][/\ (/\ pc = "newton"
            /\ ~RangeDone(loc.i, args.max_iterations)
            /\ IsFloat(Price(args.S, args.K, args.T, args.r, loc.sigma,
                             args.option_type))
            /\ ~(Abs(SubFx(Price(args.S, args.K, args.T, args.r, loc.sigma,
                                 args.option_type).v, args.market_price))
                   < args.tolerance)
            /\ IsFloat(UnitVega(args, loc.sigma))
            /\ UnitVega(args, loc.sigma).v < VegaMin)
           => /\ pc' = "returned"
              /\ ret'.val = None
              /\ ret'.path = "vega"
              /\ loc' = loc
              /\ cnt'.price = cnt.price + 1
              /\ cnt'.vega = cnt.vega + 1
       /\ pc # "returned"]_vars

\* the fallback gave up on a vanishing vega after at least one update had
\* moved sigma away from the guess
C23_AbortedAfterUpdate ==
    /\ pc = "returned" /\ ret.path = "vega" /\ ret.val = None
    /\ cnt.newton > 1 /\ loc.i = cnt.newton - 1
    /\ loc.sigma # args.initial_guess

\* C24: every Newton-Raphson update is clamped into [0.001, 5.0]: from the
\* second pass on (loop index >= 1), the sigma at which the fallback evaluates
\* price and vega, and the sigma it returns, lies in [0.001, 5.0] and is
\* strictly positive, whatever the initial guess was.
C24_IteratesClamped ==
    /\ (pc = "newton" /\ loc.i >= 1) =>
          /\ loc.sigma >= SigmaLo
          /\ loc.sigma <= SigmaHi
          /\ loc.sigma > 0
    /\ (pc = "returned" /\ ret.path \in {"newton", "vega", "raised"}
          /\ cnt.newton >= 2) =>
          /\ loc.sigma >= SigmaLo
          /\ loc.sigma <= SigmaHi
          /\ (IsFloat(ret.val) => ret.val.v = loc.sigma)

\* a quote of 99.0, above the model price at 5.0, has driven the update beyond
\* 5.0 from a guess inside the interval, and the clamp has put it back on 5.0
C24_ClampedAtUpperEnd ==
    /\ pc = "newton" /\ loc.i >= 1
    /\ loc.sigma = SigmaHi
    /\ args.initial_guess = DefaultGuess
    /\ args.market_price = 99 * ONE

\* C25: every non-absent result sigma* of calculate_implied_volatility, from
\* the bracketed search as well as from the fallback, meets the convergence
\* criterion on the price: |price(S, K, T, r, sigma*, option_type) -
\* market_price| < tolerance.
C25_ResultMeetsPriceTolerance ==
    (pc = "returned" /\ ret.op = "implied_volatility" /\ IsFloat(ret.val)) =>
       /\ IsFloat(Price(args.S, args.K, args.T, args.r, ret.val.v,
                        args.option_type))
       /\ Abs(SubFx(Price(args.S, args.K, args.T, args.r, ret.val.v,
                          args.option_type).v, args.market_price))
            < args.tolerance

\* C26: the Greeks engine and the pricing engine compute the same d1 and d2.
\* For every S, K, T, r, sigma the two objects were built from, Greeks._d1 and
\* Greeks._d2 give what BlackScholesModel._d1 and _d2 give (the same number,
\* or the same exception), and what get_d1_d2 returns is that pair; both are
\* the sentinel 0.0 whenever T <= 0, and d2 = d1 - sigma * sqrt(T) whenever
\* T > 0.
C26_SameD1D2 ==
    /\ GreeksD1(gk.S, gk.K, gk.T, gk.r, gk.sigma).tag
         = D1(bs.S, bs.K, bs.T, bs.r, bs.sigma).tag
    /\ GreeksD1(gk.S, gk.K, gk.T, gk.r, gk.sigma).v
         = D1(bs.S, bs.K, bs.T, bs.r, bs.sigma).v
    /\ GreeksD2(gk.S, gk.K, gk.T, gk.r, gk.sigma).tag
         = D2(bs.S, bs.K, bs.T, bs.r, bs.sigma).tag
    /\ GreeksD2(gk.S, gk.K, gk.T, gk.r, gk.sigma).v
         = D2(bs.S, bs.K, bs.T, bs.r, bs.sigma).v
    /\ gk.T <= 0 =>
          /\ GreeksD1(gk.S, gk.K, gk.T, gk.r, gk.sigma) = Val(0, {"_d1"})
          /\ GreeksD2(gk.S, gk.K, gk.T, gk.r, gk.sigma) = Val(0, {"_d2"})
    /\ (gk.T > 0 /\ IsFloat(GreeksD1(gk.S, gk.K, gk.T, gk.r, gk.sigma))) =>
          GreeksD2(gk.S, gk.K, gk.T, gk.r, gk.sigma).v
            = SubFx(GreeksD1(gk.S, gk.K, gk.T, gk.r, gk.sigma).v,
                    MulFx(gk.sigma, SqrtFx(gk.T)))
    /\ (pc = "returned" /\ ret.op = "get_d1_d2") =>
          IF ret.val.tag = "tuple"
            THEN /\ ret.val.v[1] = GreeksD1(gk.S, gk.K, gk.T, gk.r, gk.sigma).v
                 /\ ret.val.v[2] = GreeksD2(gk.S, gk.K, gk.T, gk.r, gk.sigma).v
                 /\ bs.T <= 0 => ret.val.v = <<0, 0>>
                 /\ bs.T > 0 =>
                      ret.val.v[2] = SubFx(ret.val.v[1],
                                           MulFx(bs.sigma, SqrtFx(bs.T)))
            ELSE /\ IsExc(ret.val)
                 /\ ret.val.tag
                      = GreeksD1(gk.S, gk.K, gk.T, gk.r, gk.sigma).tag

\* get_d1_d2 returned a pair with d1 > 0 > d2 for a live option at the money
C26_LivePairReturned ==
    /\ pc = "returned" /\ ret.op = "get_d1_d2" /\ ret.val.tag = "tuple"
    /\ bs.T > 0 /\ bs.S = bs.K /\ bs.sigma = 3 * ONE
    /\ ret.val.v[1] > 0 /\ ret.val.v[2] < 0

\* C27: a side that is neither call nor put is fatal to every kernel call
\* whose result depends on the side. Like price, the Greeks operations delta,
\* theta, rho and all_greeks fail with the invalid-option-type error for such
\* a side (stated for well-formed numbers: S, K, sigma > 0) and return no
\* number computed under either side's formula.
C27_InvalidSideFatalToGreeks ==
    (/\ pc = "returned"
     /\ ret.op \in {"price", "delta", "theta", "rho", "all_greeks"}
     /\ Lower(args.option_type) \notin {StrCall, StrPut}
     /\ gk.S > 0 /\ gk.K > 0 /\ gk.sigma > 0)
    => /\ ret.val.tag = "ValueError"
       /\ ret.val.msg = MsgOptionType

\* C28: every non-absent result of calculate_implied_volatility lies in the
\* search interval [0.001, 5.0], on the bracketed path and on the fallback
\* path, for every initial_guess, also one outside the interval.
C28_ResultInsideInterval ==
    (pc = "returned" /\ ret.op = "implied_volatility" /\ IsFloat(ret.val)) =>
       /\ ret.val.v >= SigmaLo
       /\ ret.val.v <= SigmaHi

\* C29: calculate_implied_volatility classifies the side as
\* BlackScholesModel.price does. For every option_type that price() prices as
\* a call, in any letter case, the intrinsic floor of the precondition is
\* max(0, S - K), and for every string priced as a put it is max(0, K - S):
\* with T > 0 and market_price > 0 the solver stops at its precondition
\* exactly when the market price is below the floor of the side priced, and
\* such a price always yields absent.
C29_FloorOfSidePriced ==
    (/\ pc = "returned" /\ ret.op = "implied_volatility"
     /\ Lower(args.option_type) \in {StrCall, StrPut}
     /\ args.T > 0 /\ args.market_price > 0)
    => /\ (ret.path = "precondition")
            <=> (args.market_price
                   < (IF Lower(args.option_type) = StrCall
                        THEN Max2(0, args.S - args.K)
                        ELSE Max2(0, args.K - args.S)))
       /\ (args.market_price
              < (IF Lower(args.option_type) = StrCall
                   THEN Max2(0, args.S - args.K)
                   ELSE Max2(0, args.K - args.S)))
            => ret.val = None

\* C30: when the preconditions pass but the bracket is invalid (the objective
\* price(sigma) - market_price has the same sign at sigma = 0.001 and at
\* sigma = 5.0 and is at least tolerance in absolute value at both ends),
\* calculate_implied_volatility with the default initial_guess returns
\* absent: neither an end of the bracket nor any other sigma is returned.
C30_InvalidBracketAbsent ==
    (/\ pc = "returned" /\ ret.op = "implied_volatility"
     /\ args.initial_guess = DefaultGuess
     /\ ~PreconditionFails(args)
     /\ SameSign(Objective(args, SigmaLo), Objective(args, SigmaHi))
     /\ Abs(Objective(args, SigmaLo)) >= args.tolerance
     /\ Abs(Objective(args, SigmaHi)) >= args.tolerance)
    => /\ ret.val = None
       /\ ret.path \in {"vega", "exhausted", "raised"}

\* a call at the money quoted at 1.0, between its intrinsic value 0 and its
\* price 1.24 at sigma = 0.001: brentq raised on the signs and the fallback,
\* driven to 0.001, gave up on the vega
C30_QuoteUnderLowestPrice ==
    /\ pc = "returned" /\ ret.val = None /\ ret.path = "vega"
    /\ loc.raised = "ValueError" /\ loc.sigma = SigmaLo
    /\ args.option_type = StrCall /\ args.S = args.K
    /\ args.market_price = ONE
    /\ args.initial_guess = DefaultGuess

====
